---- MODULE Spec2Model ----
(***************************************************************************)
(* EnvBench: the batch evaluation runner (evaluation/main.py), the         *)
(* inference scheduler (inference/main.py) and the interactive bash        *)
(* executor session used by the agent toolkits.                            *)
(*                                                                         *)
(* Every coroutine is modelled at the granularity of asyncio: the          *)
(* statements between two awaits run atomically, every await is a          *)
(* separate step whose outcome (value, exception, timeout) is chosen by    *)
(* the environment.                                                        *)
(***************************************************************************)
EXTENDS Integers, Sequences, FiniteSets, TLC

\* ---------------------------------------------------------------- bounds
NJobs == 2
MaxWorkers == 2
NCalls == 3
MaxUnderscores == 2
MaxOutputLen == 4
MaxChars == 2
MaxToolCalls == 3
MaxIterations == 3
MaxMessages == 7
MaxCommands == 2
MaxAttempts == 2
NManagers == 3

Jobs == 1..NJobs

\* ------------------------------------------------------- program constants
TIMEOUT == -127
UNKNOWN_FAILURE == -999
DOCKER_FAILURE == -888
DOWNLOAD_FAILURE == -666
CREATE_CONTAINER_FAILURE == -777

\* json_result["exit_code"] before any assignment (Python None)
None == 1000

\* exit statuses a user script can end with
StatusCodes == {0, 1}

\* cfg.language values; "other" is any value outside build_script_functions
\* ("jvm" takes the same branches as "python")
Languages == {"python", "repo2run", "other"}
build_script_functions == {"jvm", "python", "repo2run"}

\* what an awaited engine request can raise: DockerError, asyncio.TimeoutError
\* (the client session is built with ClientTimeout(total=container_timeout,
\* sock_connect=create_container_timeout), and the execution phase also runs
\* under asyncio.wait_for), or any other exception
EngineErrors == {"DockerError", "TimeoutError", "Exception"}

VARIABLES
    mode,          \* which program runs: "evaluation" | "inference" | "session"
    limit,         \* max_workers (evaluation) / max_concurrent (inference)
    language,      \* cfg.language
    global_timeout,\* config.global_timeout is set (inference)
    semaphore,     \* value of the asyncio.Semaphore
    batch,         \* "gathering" | "returned": the gather / as_completed call
    pc,            \* position of each job's coroutine
    json_result,   \* run_opensource's json_result dict of each job
    container,     \* "None", or the last engine state the job saw
    status,        \* exit status obtained from container.wait
    script,        \* build.sh was written into the checkout
    creates,       \* number of containers.create calls that succeeded
    deletes,       \* number of container.delete / toolkit.clean calls
    cleared,       \* repo_downloader.clear_repo was called
    written,       \* number of times the job's JSON record was dumped
    phase,         \* await during which the job left the try block
    downloaded,    \* what repo_downloader.download returned
    exc,           \* the last exception raised while the job was processed
    assigned,      \* number of assignments to json_result["exit_code"]
    \* ---- one interactive session (AsyncBashExecutor)
    s_pc,          \* position of each execute_bash_command call
    s_cmd,         \* the command of each call
    mutex,         \* 0, or the call holding the session's mutex
    session_state, \* SessionState: exported variable X, cwd, last exit code
    shell,         \* variables and cwd of the shell process of each exec
    tmp_lock,      \* /tmp/test.lock exists inside the container
    bind_fs,       \* files of the bind-mounted repository
    container_up,  \* the session's container is running
    results,       \* what each call returned
    commands_history,
    timeouts,      \* number of command timeouts so far
    survived,      \* bind_fs at the latest timeout
    \* ---- evaluation/main.py main(): the results directory across runs
    m_pc,          \* "idle" | "running": a run of main()
    rewrite_results, \* cfg.operation.rewrite_results of the current run
    results_dir,   \* file name -> (repo_name, commit_sha) of the record in it
    submitted,     \* rows of the input of the current run
    repos,         \* the rows main() passes on to run_batch_async
    pending,       \* jobs of the current run that have not ended yet
    \* ---- one command result being formatted by the executor
    f_pc,          \* "raw" | "formatted"
    command_output,\* what the command printed
    command_exit,  \* the command's exit status
    max_num_chars_bash_output,
    returned,      \* the (text, exit code) pair handed to the caller
    \* ---- one toolkit over one executor (EnvSetupToolkit.instantiate)
    tk_pc,         \* "config" | "executor" | "ready" | "failed"
    tk_config,     \* the EnvSetupToolkit member, "none" when built by hand
    tk_class,      \* the toolkit class whose create() was called
    read_only,     \* bash_executor.read_only
    tk_history,    \* toolkit.commands_history
    execs,         \* the execs that reached the container, in order
    tk_writes,     \* write operations carried out inside the container
    tk_reply,      \* what the latest tool call answered
    tk_calls,      \* number of tool calls so far
    \* --- the agent workflows (graphs)
    workflow,      \* which create_*_workflow built the graph
    max_iterations,        \* its max_iterations (max_turns for rebench-readonly)
    reward_score_for_pass, \* create_try_again_workflow's threshold
    do_summarization,      \* create_rebench_readonly_workflow's switch
    initial,       \* the messages of the initial state
    node,          \* the node that runs next
    messages,      \* state["messages"]
    turn,          \* state["turn"]
    max_turns,     \* state["max_turns"]
    should_continue,       \* state["should_continue"]
    invocations,   \* calls of the model, the reward function, the tools
    node_runs,     \* number of node executions so far
    shell_script,  \* state["script"] (shellcheck), state["shell_script"]
    resulting_commands,    \* the scripts of the agent's commands_history
    max_script_generation_attempts,
    \* --- trajectories turned into scripts
    pt_pc,         \* "call" | "done"
    trajectory,    \* the entries read from the trajectory file
    parsed,        \* what parse_script_from_trajectory returned
    \* --- the two scheduler functions on their own
    scheduler,     \* "run_batch_async" | "run_limited"
    batch_size,    \* the value the semaphore was built with
    permits,       \* permits left in the semaphore
    task,          \* per job: "created" | "running" | "returned" | "raised"
    exit_path,     \* per job: how its own run ended
    call,          \* the scheduler call: "pending" | "returned" | "raised"
    \* --- the download cache of the analysis scripts (CacheManager)
    cache_file,    \* what cache_map.json of the cache directory holds
    managers,      \* per CacheManager: constructed or not, and its _cache_map
    latest,        \* key -> path of the update_cache calls since the last clear
    \* --- the results-file index of pass5_explorer
    results_files, \* the module's _results_files
    results_cache, \* results_files_cache.json (CACHE_FILE)
    dataset,       \* the results files of the remote dataset
    last_call      \* the latest call: what it was, what it did and returned

batchVars == <<mode, limit, language, global_timeout, semaphore, batch, pc,
               json_result, container, status, script, creates, deletes,
               cleared, written, phase, downloaded, exc, assigned>>

sessionVars == <<s_pc, s_cmd, mutex, session_state, shell, tmp_lock, bind_fs,
                 container_up, results, commands_history, timeouts, survived>>

resumeVars == <<m_pc, rewrite_results, results_dir, submitted, repos, pending>>

formatVars == <<f_pc, command_output, command_exit, max_num_chars_bash_output,
                returned>>

toolkitVars == <<tk_pc, tk_config, tk_class, read_only, tk_history, execs,
                 tk_writes, tk_reply, tk_calls>>

graphVars == <<workflow, max_iterations, reward_score_for_pass,
               do_summarization, initial, node, messages, turn, max_turns,
               should_continue, invocations, node_runs, shell_script,
               resulting_commands, max_script_generation_attempts>>

\* the parts of the system added after the four above
parseVars == <<pt_pc, trajectory, parsed>>

schedulerVars == <<scheduler, batch_size, permits, task, exit_path, call>>

cacheVars == <<cache_file, managers, latest>>

explorerVars == <<results_files, results_cache, dataset, last_call>>

\* the analysis tools
toolVars == <<cacheVars, explorerVars>>

restVars == <<toolkitVars, graphVars, parseVars, schedulerVars, toolVars>>

coreVars == <<batchVars, sessionVars, resumeVars, formatVars>>

vars == <<coreVars, restVars>>

\* -------------------------------------------------------------- helpers
Terminal == {"returned", "raised", "cancelled"}

InFlight == {j \in Jobs : pc[j] \notin ({"queued"} \cup Terminal)}

\* evaluation/main.py:81-88
InitialResult ==
    [exit_code |-> None, execution_time |-> 0, repo_name |-> "repo",
     commit_sha |-> "sha", container_logs |-> "None", issues_count |-> 0]

\* result.get("StatusCode", 1)
StatusCode(result) ==
    IF "StatusCode" \in DOMAIN result THEN result["StatusCode"] ELSE 1

\* what container.wait can answer
WaitResults == {[StatusCode |-> s] : s \in StatusCodes} \cup {[Error |-> 0]}

\* cfg.exit_codes.<sentinel> and container_logs chosen by the except clauses
HandlerCode(e) ==
    CASE e = "TimeoutError" -> TIMEOUT
      [] e = "DockerError"  -> DOCKER_FAILURE
      [] OTHER              -> UNKNOWN_FAILURE

HandlerLogs(e) ==
    CASE e = "TimeoutError" -> "timeout_message"
      [] e = "DockerError"  -> "docker_error"
      [] OTHER              -> "unknown_exception"

\* the matching except clause of run_opensource's try
Handled(jr, e) ==
    [jr EXCEPT !.exit_code = HandlerCode(e), !.container_logs = HandlerLogs(e)]

\* a finally block that goes straight to closing the client
FinallyPc_no_delete(c) == "close"

\* first statement of the finally block: delete only "if container"
FinallyPc(c) == IF c # "None" THEN "delete" ELSE "close"

NoData == [k \in {} |-> 0]

\* content of build_output/results.json as far as the runner looks at it
\* "pytest" stands for the number of failed entries of pytest.collectors
FileObjects ==
    { [issues_count |-> 7, pytest |-> 2],
      [exit_code |-> 0, repo_name |-> "other_repo"] }
ResultFiles ==
    {[kind |-> t, data |-> NoData] :
        t \in {"missing", "invalid_json", "non_object"}}
    \cup {[kind |-> "object", data |-> o] : o \in FileObjects}

IsObject(f) == f.kind = "object"

\* for key in build_results: json_result[key] = build_results[key]
Merge(jr, f) ==
    [k \in (DOMAIN jr) \cup (DOMAIN f) |-> IF k \in DOMAIN f THEN f[k] ELSE jr[k]]

\* sum(1 for _ in json_result.get("pytest", {}).get("collectors", []) if failed)
FailedCollectors(jr) == IF "pytest" \in DOMAIN jr THEN jr["pytest"] ELSE 0

\* lines 219-231: the best-effort read of the results file
ReadResults(jr, f, lang) ==
    IF IsObject(f)
    THEN LET m == Merge(jr, f.data)
         IN IF lang = "repo2run"
            THEN [m EXCEPT !["issues_count"] = FailedCollectors(m)]
            ELSE m
    ELSE jr

\* gather that forwards the first exception of a job to its caller
return_exceptions_off == FALSE

\* gather(..., return_exceptions=...) of the program that runs
return_exceptions == mode = "evaluation"

\* a semaphore that never makes a job wait
locked_never(sem) == FALSE

\* asyncio.Semaphore: "async with" has to wait while no permit is left
locked(sem) == sem <= 0

\* the download check without its early return
PrepareOutcome_no_return(is_downloaded, lang, write_ok) ==
    IF lang \notin build_script_functions THEN "ValueError"
    ELSE IF ~write_ok THEN "OSError"
    ELSE "ok"

\* run_opensource lines 103-137: the branch taken before the first await
PrepareOutcome(is_downloaded, lang, write_ok) ==
    IF ~is_downloaded THEN "download_failure"
    ELSE IF lang \notin build_script_functions THEN "ValueError"
    ELSE IF ~write_ok THEN "OSError"
    ELSE "ok"

\* ------------------------------------------------------------------ Init
\* no run of main() yet: the results directory does not exist
NoFiles == [f \in {} |-> 0]

InitResume ==
    /\ m_pc = "idle"
    /\ rewrite_results = FALSE
    /\ results_dir = NoFiles
    /\ submitted = {}
    /\ repos = {}
    /\ pending = {}

\* no command result to format
IdleFormat ==
    /\ f_pc = "formatted"
    /\ command_output = <<>>
    /\ command_exit = 0
    /\ max_num_chars_bash_output = 0
    /\ returned = [text |-> <<>>, exit_code |-> 0]

\* no executor and no toolkit yet
InitToolkit ==
    /\ tk_pc = "config"
    /\ tk_config = "none"
    /\ tk_class = "none"
    /\ read_only = FALSE
    /\ tk_history = <<>>
    /\ execs = <<>>
    /\ tk_writes = 0
    /\ tk_reply = "none"
    /\ tk_calls = 0

\* no workflow compiled
IdleGraph ==
    /\ workflow = "none"
    /\ max_iterations = 0
    /\ reward_score_for_pass = 0
    /\ do_summarization = FALSE
    /\ initial = <<>>
    /\ node = "__end__"
    /\ messages = <<>>
    /\ turn = None
    /\ max_turns = None
    /\ should_continue = None
    /\ invocations = <<>>
    /\ node_runs = 0
    /\ shell_script = None
    /\ resulting_commands = <<>>
    /\ max_script_generation_attempts = 0

\* no trajectory read
IdleParse ==
    /\ pt_pc = "done"
    /\ trajectory = <<>>
    /\ parsed = <<>>

\* no scheduler call under way
IdleScheduler ==
    /\ scheduler = "none"
    /\ batch_size = 0
    /\ permits = 0
    /\ task = [j \in Jobs |-> "returned"]
    /\ exit_path = [j \in Jobs |-> "none"]
    /\ call = "returned"

\* no CacheManager constructed, an empty cache directory
NoPath == "None"
Managers == 1..NManagers
IdleCache ==
    /\ cache_file = NoFiles
    /\ managers = [m \in Managers |-> [built |-> FALSE, cache_map |-> NoFiles]]
    /\ latest = NoFiles

\* pass5_explorer not started
IdleExplorer ==
    /\ results_files = [loaded |-> FALSE, files |-> <<>>]
    /\ results_cache = [exists |-> FALSE, valid |-> FALSE, files |-> <<>>]
    /\ dataset = {}
    /\ last_call = [op |-> "none", listed |-> FALSE, returned |-> <<>>]

IdleTools == IdleCache /\ IdleExplorer

IdleRest ==
    InitToolkit /\ IdleGraph /\ IdleParse /\ IdleScheduler /\ IdleTools

\* the batch programs when another part of the system is looked at alone
IdleBatch(m) ==
    /\ mode = m
    /\ limit = 0
    /\ language = "python"
    /\ global_timeout = FALSE
    /\ semaphore = 0
    /\ batch = "gathering"
    /\ pc = [j \in Jobs |-> "queued"]
    /\ json_result = [j \in Jobs |-> InitialResult]
    /\ container = [j \in Jobs |-> "None"]
    /\ status = [j \in Jobs |-> None]
    /\ script = [j \in Jobs |-> FALSE]
    /\ creates = [j \in Jobs |-> 0]
    /\ deletes = [j \in Jobs |-> 0]
    /\ cleared = [j \in Jobs |-> FALSE]
    /\ written = [j \in Jobs |-> 0]
    /\ phase = [j \in Jobs |-> "none"]
    /\ downloaded = [j \in Jobs |-> "pending"]
    /\ exc = [j \in Jobs |-> "none"]
    /\ assigned = [j \in Jobs |-> 0]

InitBatch ==
    /\ mode \in {"evaluation", "inference"}
    /\ limit \in 0..MaxWorkers
    /\ language \in (IF mode = "evaluation" THEN Languages ELSE {"python"})
    /\ global_timeout \in (IF mode = "inference" THEN BOOLEAN ELSE {FALSE})
    /\ semaphore = limit
    /\ batch = "gathering"
    /\ pc = [j \in Jobs |-> "queued"]
    /\ json_result = [j \in Jobs |-> InitialResult]
    /\ container = [j \in Jobs |-> "None"]
    /\ status = [j \in Jobs |-> None]
    /\ script = [j \in Jobs |-> FALSE]
    /\ creates = [j \in Jobs |-> 0]
    /\ deletes = [j \in Jobs |-> 0]
    /\ cleared = [j \in Jobs |-> FALSE]
    /\ written = [j \in Jobs |-> 0]
    /\ phase = [j \in Jobs |-> "none"]
    /\ downloaded = [j \in Jobs |-> "pending"]
    /\ exc = [j \in Jobs |-> "none"]
    /\ assigned = [j \in Jobs |-> 0]

cfgVars == <<mode, limit, language, global_timeout>>

\* --------------------------------------------- evaluation: run_batch_async
\* run_single_repo: "async with semaphore" entered
run_single_repo(j) ==
    /\ mode = "evaluation"
    /\ batch = "gathering"
    /\ pc[j] = "queued"
    /\ ~locked(semaphore)
    /\ semaphore' = semaphore - 1
    /\ pc' = [pc EXCEPT ![j] = "prepare"]
    /\ UNCHANGED <<sessionVars, resumeVars, formatVars, restVars>>
    /\ UNCHANGED <<downloaded, exc, assigned>>
    /\ UNCHANGED <<cfgVars, batch, json_result, container, status, script,
                   creates, deletes, cleared, written, phase>>

\* run_opensource up to its first await: download, language check, scripts
Prepare(j) ==
    /\ mode = "evaluation"
    /\ batch = "gathering"
    /\ pc[j] = "prepare"
    /\ \E is_downloaded \in BOOLEAN, write_ok \in BOOLEAN :
         LET o == PrepareOutcome(is_downloaded, language, write_ok)
         IN /\ downloaded' =
                 [downloaded EXCEPT ![j] = IF is_downloaded THEN "yes" ELSE "no"]
            /\ IF o = "download_failure"
               THEN /\ json_result' =
                         [json_result EXCEPT ![j].exit_code = DOWNLOAD_FAILURE]
                    /\ pc' = [pc EXCEPT ![j] = "returned"]
                    /\ semaphore' = semaphore + 1
                    /\ assigned' = [assigned EXCEPT ![j] = @ + 1]
                    /\ UNCHANGED <<script, exc>>
               ELSE IF o = "ok"
               THEN /\ script' = [script EXCEPT ![j] = TRUE]
                    /\ pc' = [pc EXCEPT ![j] = "create"]
                    /\ UNCHANGED <<json_result, semaphore, exc, assigned>>
               ELSE /\ exc' = [exc EXCEPT ![j] = o]
                    /\ pc' = [pc EXCEPT ![j] = "raised"]
                    /\ semaphore' = semaphore + 1
                    /\ UNCHANGED <<json_result, script, assigned>>
    /\ UNCHANGED <<sessionVars, resumeVars, formatVars, restVars>>
    /\ UNCHANGED <<cfgVars, batch, container, status, creates, deletes,
                   cleared, written, phase>>

\* an exception leaves the try block at await `at`: except clause, then the
\* finally block up to its first await
Except(j, e, at) ==
    /\ json_result' = [json_result EXCEPT ![j] = Handled(@, e)]
    /\ phase' = [phase EXCEPT ![j] = at]
    /\ exc' = [exc EXCEPT ![j] = e]
    /\ assigned' = [assigned EXCEPT ![j] = @ + 1]
    /\ pc' = [pc EXCEPT ![j] = FinallyPc(container[j])]

\* await docker_client.containers.create(config=container_config)
Create(j) ==
    /\ mode = "evaluation"
    /\ batch = "gathering"
    /\ pc[j] = "create"
    /\ \/ /\ container' = [container EXCEPT ![j] = "created"]
          /\ creates' = [creates EXCEPT ![j] = @ + 1]
          /\ pc' = [pc EXCEPT ![j] = "start"]
          /\ UNCHANGED <<json_result, phase, exc, assigned>>
       \/ /\ \E e \in EngineErrors : Except(j, e, "create")
          /\ UNCHANGED <<container, creates>>
    /\ UNCHANGED <<sessionVars, resumeVars, formatVars, restVars>>
    /\ UNCHANGED <<downloaded>>
    /\ UNCHANGED <<cfgVars, semaphore, batch, status, script, deletes,
                   cleared, written>>

\* await container.start()
Start(j) ==
    /\ mode = "evaluation"
    /\ batch = "gathering"
    /\ pc[j] = "start"
    /\ \/ /\ container' = [container EXCEPT ![j] = "running"]
          /\ pc' = [pc EXCEPT ![j] = "wait"]
          /\ UNCHANGED <<json_result, phase, exc, assigned>>
       \/ /\ \E e \in EngineErrors : Except(j, e, "start")
          /\ UNCHANGED container
    /\ UNCHANGED <<sessionVars, resumeVars, formatVars, restVars>>
    /\ UNCHANGED <<downloaded>>
    /\ UNCHANGED <<cfgVars, semaphore, batch, status, script, creates,
                   deletes, cleared, written>>

\* stream_and_wait_container: await container.wait(timeout=...)
Wait(j) ==
    /\ mode = "evaluation"
    /\ batch = "gathering"
    /\ pc[j] = "wait"
    /\ \/ /\ \E result \in WaitResults :
               status' = [status EXCEPT ![j] = StatusCode(result)]
          /\ container' = [container EXCEPT ![j] = "exited"]
          /\ pc' = [pc EXCEPT ![j] = "log"]
          /\ UNCHANGED <<json_result, phase, exc, assigned>>
       \/ /\ \E e \in EngineErrors : Except(j, e, "wait")
          /\ UNCHANGED <<container, status>>
    /\ UNCHANGED <<sessionVars, resumeVars, formatVars, restVars>>
    /\ UNCHANGED <<downloaded>>
    /\ UNCHANGED <<cfgVars, semaphore, batch, script, creates, deletes,
                   cleared, written>>

\* how often lines 215-245 assign json_result["exit_code"] once wait_for has
\* returned: line 216, the merge loop when the file has that key, and the
\* "except Exception" clause when the merge loop raises
Assignments(f) ==
    1 + (IF IsObject(f) /\ "exit_code" \in DOMAIN f.data THEN 1 ELSE 0)
      + (IF f.kind = "non_object" THEN 1 ELSE 0)

\* the statements after wait_for returned: lines 215-231
Completed(jr, st, f, lang) ==
    LET jr1 == [jr EXCEPT !.exit_code = st, !.container_logs = "logs"]
    IN IF f.kind = "non_object"
       THEN Handled(jr1, "Exception")
       ELSE ReadResults(jr1, f, lang)

\* stream_and_wait_container: await container.log(...), then lines 215-231
Log(j) ==
    /\ mode = "evaluation"
    /\ batch = "gathering"
    /\ pc[j] = "log"
    /\ \/ /\ \E f \in ResultFiles :
               /\ json_result' = [json_result EXCEPT
                                    ![j] = Completed(@, status[j], f, language)]
               /\ exc' = [exc EXCEPT ![j] =
                            IF f.kind = "non_object" THEN "TypeError" ELSE @]
               /\ assigned' = [assigned EXCEPT ![j] = @ + Assignments(f)]
          /\ pc' = [pc EXCEPT ![j] = FinallyPc(container[j])]
          /\ UNCHANGED phase
       \/ \E e \in EngineErrors : Except(j, e, "log")
    /\ UNCHANGED <<sessionVars, resumeVars, formatVars, restVars>>
    /\ UNCHANGED <<downloaded>>
    /\ UNCHANGED <<cfgVars, semaphore, batch, container, status, script,
                   creates, deletes, cleared, written>>

\* finally: await container.delete(force=True), failure swallowed
Delete(j) ==
    /\ mode = "evaluation"
    /\ batch = "gathering"
    /\ pc[j] = "delete"
    /\ deletes' = [deletes EXCEPT ![j] = @ + 1]
    /\ \E ok \in BOOLEAN : pc' = [pc EXCEPT ![j] = "close"]
    /\ UNCHANGED <<sessionVars, resumeVars, formatVars, restVars>>
    /\ UNCHANGED <<downloaded, exc, assigned>>
    /\ UNCHANGED <<cfgVars, semaphore, batch, json_result, container, status,
                   script, creates, cleared, written, phase>>

\* finally: await docker_client.close(); then lines 258-279
Close(j) ==
    /\ mode = "evaluation"
    /\ batch = "gathering"
    /\ pc[j] = "close"
    /\ \E ok \in BOOLEAN :
         IF ok
         THEN /\ json_result' = [json_result EXCEPT ![j].execution_time = 1]
              /\ cleared' = [cleared EXCEPT ![j] = TRUE]
              /\ written' = [written EXCEPT ![j] = @ + 1]
              /\ pc' = [pc EXCEPT ![j] = "returned"]
              /\ UNCHANGED exc
         ELSE /\ pc' = [pc EXCEPT ![j] = "raised"]
              /\ exc' = [exc EXCEPT ![j] = "CloseError"]
              /\ UNCHANGED <<json_result, cleared, written>>
    /\ semaphore' = semaphore + 1
    /\ UNCHANGED <<sessionVars, resumeVars, formatVars, restVars>>
    /\ UNCHANGED <<downloaded, assigned>>
    /\ UNCHANGED <<cfgVars, batch, container, status, script, creates,
                   deletes, phase>>

\* ------------------------------------------------ inference: run_experiment
\* the job leaves process_single_datapoint (and the semaphore, if any)
Leave(j) ==
    /\ pc' = [pc EXCEPT ![j] = "returned"]
    /\ semaphore' = IF limit # 0 THEN semaphore + 1 ELSE semaphore

\* run_limited.runner: "async with sem"; without max_concurrent every
\* coroutine is started by asyncio.as_completed
runner(j) ==
    /\ mode = "inference"
    /\ batch = "gathering"
    /\ pc[j] = "queued"
    /\ limit # 0 => ~locked(semaphore)
    /\ semaphore' = IF limit # 0 THEN semaphore - 1 ELSE semaphore
    /\ pc' = [pc EXCEPT ![j] = "instantiate"]
    /\ UNCHANGED <<sessionVars, resumeVars, formatVars, restVars>>
    /\ UNCHANGED <<downloaded, exc, assigned>>
    /\ UNCHANGED <<cfgVars, batch, json_result, container, status, script,
                   creates, deletes, cleared, written, phase>>

\* await config.agent.toolkit.instantiate(...): executor, then toolkit
Instantiate(j) ==
    /\ mode = "inference"
    /\ batch = "gathering"
    /\ pc[j] = "instantiate"
    /\ \E executor_ok \in BOOLEAN, toolkit_ok \in BOOLEAN :
         /\ container' = [container EXCEPT
                            ![j] = IF executor_ok THEN "running" ELSE @]
         /\ creates' = [creates EXCEPT
                          ![j] = IF executor_ok THEN @ + 1 ELSE @]
         /\ IF executor_ok /\ toolkit_ok
            THEN /\ pc' = [pc EXCEPT ![j] = "arun"]
                 /\ UNCHANGED semaphore
            ELSE Leave(j)
    /\ UNCHANGED <<sessionVars, resumeVars, formatVars, restVars>>
    /\ UNCHANGED <<downloaded, exc, assigned>>
    /\ UNCHANGED <<cfgVars, batch, json_result, status, script, deletes,
                   cleared, written, phase>>

\* await runner.arun(), under asyncio.wait_for when global_timeout is set
Arun(j) ==
    /\ mode = "inference"
    /\ batch = "gathering"
    /\ pc[j] = "arun"
    /\ \E outcome \in {"ok", "Exception"} \cup
                      (IF global_timeout THEN {"TimeoutError"} ELSE {}) :
         /\ phase' = [phase EXCEPT ![j] = outcome]
         /\ IF outcome = "Exception"
            THEN Leave(j)
            ELSE /\ pc' = [pc EXCEPT ![j] = "clean"]
                 /\ UNCHANGED semaphore
    /\ UNCHANGED <<sessionVars, resumeVars, formatVars, restVars>>
    /\ UNCHANGED <<downloaded, exc, assigned>>
    /\ UNCHANGED <<cfgVars, batch, json_result, container, status, script,
                   creates, deletes, cleared, written>>

\* await asyncio.wait_for(toolkit.clean(), timeout=60 * 3)
Clean(j) ==
    /\ mode = "inference"
    /\ batch = "gathering"
    /\ pc[j] = "clean"
    /\ deletes' = [deletes EXCEPT ![j] = @ + 1]
    /\ \E outcome \in {"ok", "TimeoutError", "Exception"} :
         container' = [container EXCEPT
                         ![j] = IF outcome = "ok" THEN "removed" ELSE @]
    /\ Leave(j)
    /\ UNCHANGED <<sessionVars, resumeVars, formatVars, restVars>>
    /\ UNCHANGED <<downloaded, exc, assigned>>
    /\ UNCHANGED <<cfgVars, batch, json_result, status, script, creates,
                   cleared, written, phase>>

\* ---------------------------------------------------- the scheduler call
\* asyncio.gather / as_completed loop returns; asyncio.run then cancels
\* whatever task is still pending
Gather ==
    /\ mode \in {"evaluation", "inference"}
    /\ batch = "gathering"
    /\ \/ \A j \in Jobs : pc[j] \in Terminal
       \/ ~return_exceptions /\ \E j \in Jobs : pc[j] = "raised"
    /\ batch' = "returned"
    /\ pc' = [j \in Jobs |-> IF pc[j] \in Terminal THEN pc[j] ELSE "cancelled"]
    /\ UNCHANGED <<sessionVars, resumeVars, formatVars, restVars>>
    /\ UNCHANGED <<downloaded, exc, assigned>>
    /\ UNCHANGED <<cfgVars, semaphore, json_result, container, status, script,
                   creates, deletes, cleared, written, phase>>

\* --------------------------------------------- the interactive session
Calls == 1..NCalls

\* "export":  export X=1 && touch out.txt
\* "cd_fail": cd src; export X=2; false
\* "exit":    exit 123
\* "show":    echo $X; pwd; ls
\* "lock":    the lock-file script of test_concurrent_execution
\* "sleep":   export X=9; cd /tmp; touch partial.txt; sleep (beyond any timeout)
Commands == {"export", "cd_fail", "exit", "show", "lock", "sleep"}

NoOutput == [text |-> "", X |-> 0, cwd |-> "", files |-> {}]

InitialState == [X |-> 0, cwd |-> "/data/project", exit_code |-> 0]

\* the session before its first command
InitSession ==
    /\ s_pc = [c \in Calls |-> "unissued"]
    /\ s_cmd = [c \in Calls |-> "none"]
    /\ mutex = 0
    /\ session_state = InitialState
    /\ shell = [c \in Calls |-> InitialState]
    /\ tmp_lock = FALSE
    /\ bind_fs = {"README.md"}
    /\ container_up = TRUE
    /\ results = [c \in Calls |->
                    [output |-> NoOutput, exit_code |-> None, pos |-> 0,
                     epoch |-> 0]]
    /\ commands_history = <<>>
    /\ timeouts = 0
    /\ survived = {}

\* exit status of a command that runs to its end
ExitCode(k) ==
    CASE k = "cd_fail" -> 1
      [] k = "exit"    -> 123
      [] OTHER         -> 0

\* what the command does to the variables and cwd of its own shell
Effect(k, sh) ==
    CASE k = "export"  -> [sh EXCEPT !.X = 1]
      [] k = "cd_fail" -> [sh EXCEPT !.X = 2, !.cwd = "/data/project/src"]
      [] k = "sleep"   -> [sh EXCEPT !.X = 9, !.cwd = "/tmp"]
      [] OTHER         -> sh

\* files the command creates in the bind mount
Creates(k) ==
    CASE k = "export" -> {"out.txt"}
      [] k = "sleep"  -> {"partial.txt"}
      [] OTHER        -> {}

\* a caller issues execute_bash_command(k); calls are numbered as issued
Call(c) ==
    /\ mode = "session"
    /\ s_pc[c] = "unissued"
    /\ \A d \in Calls : d < c => s_pc[d] # "unissued"
    /\ \E k \in Commands : s_cmd' = [s_cmd EXCEPT ![c] = k]
    /\ s_pc' = [s_pc EXCEPT ![c] = "waiting"]
    /\ UNCHANGED <<mutex, session_state, shell, tmp_lock, bind_fs,
                   container_up, results, commands_history, timeouts,
                   survived>>
    /\ UNCHANGED <<batchVars, resumeVars, formatVars, restVars>>

\* a mutex that lets every caller in
MutexFree_always(m) == TRUE

\* the session's single-command mutex can be taken
MutexFree(m) == m = 0

\* steps 1-3: take the mutex, build the script, start the exec
Acquire(c) ==
    /\ mode = "session"
    /\ s_pc[c] = "waiting"
    /\ MutexFree(mutex)
    /\ mutex' = c
    /\ s_pc' = [s_pc EXCEPT ![c] = "exec"]
    /\ UNCHANGED <<s_cmd, session_state, shell, tmp_lock, bind_fs,
                   container_up, results, commands_history, timeouts,
                   survived>>
    /\ UNCHANGED <<batchVars, resumeVars, formatVars, restVars>>

\* the script starts in the container: replay of SessionState, then the
\* part of the command that runs before it blocks or sleeps
Begin(c) ==
    /\ mode = "session"
    /\ s_pc[c] = "exec"
    /\ container_up
    /\ LET replayed == [session_state EXCEPT !.exit_code = 0]
           k == s_cmd[c]
           racing == k = "lock" /\ tmp_lock
       IN /\ shell' = [shell EXCEPT ![c] =
                         IF racing THEN [replayed EXCEPT !.exit_code = 1]
                         ELSE Effect(k, replayed)]
          /\ tmp_lock' = IF k = "lock" THEN TRUE ELSE tmp_lock
          /\ bind_fs' = bind_fs \cup Creates(k)
    /\ s_pc' = [s_pc EXCEPT ![c] = "running"]
    /\ UNCHANGED <<s_cmd, mutex, session_state, container_up, results,
                   commands_history, timeouts, survived>>
    /\ UNCHANGED <<batchVars, resumeVars, formatVars, restVars>>

\* what the finished command printed
Output(k, sh, files) ==
    CASE k = "show" -> [text |-> "show", X |-> sh.X, cwd |-> sh.cwd,
                        files |-> files]
      [] k = "lock" -> [NoOutput EXCEPT
                          !.text = IF sh.exit_code = 1
                                   THEN "Lock file exists, commands are racing!"
                                   ELSE "cmd done"]
      [] OTHER      -> NoOutput

\* a snapshot that is only taken when the command succeeded
Capture_on_success(old, sh, code) ==
    IF code = 0 THEN [X |-> sh.X, cwd |-> sh.cwd, exit_code |-> code] ELSE old

\* the SessionState kept after a completed command
Capture(old, sh, code) == [X |-> sh.X, cwd |-> sh.cwd, exit_code |-> code]

\* step 5: the exec completed: snapshot taken whatever the exit code,
\* SessionState updated, history appended, mutex released
Complete(c) ==
    /\ mode = "session"
    /\ s_pc[c] = "running"
    /\ s_cmd[c] # "sleep"
    /\ LET k == s_cmd[c]
           raced == shell[c].exit_code = 1
           code == IF raced THEN 1 ELSE ExitCode(k)
       IN /\ tmp_lock' = IF k = "lock" /\ ~raced THEN FALSE ELSE tmp_lock
          /\ session_state' = Capture(session_state, shell[c], code)
          /\ commands_history' =
                 Append(commands_history, [command |-> k, exit_code |-> code])
          /\ results' = [results EXCEPT ![c] =
                           [output |-> Output(k, shell[c], bind_fs),
                            exit_code |-> code,
                            pos |-> Len(commands_history) + 1,
                            epoch |-> timeouts]]
    /\ mutex' = IF mutex = c THEN 0 ELSE mutex
    /\ s_pc' = [s_pc EXCEPT ![c] = "done"]
    /\ UNCHANGED <<s_cmd, shell, bind_fs, container_up, timeouts, survived>>
    /\ UNCHANGED <<batchVars, resumeVars, formatVars, restVars>>

\* a timeout that stores whatever the killed shell had reached
KeepState_partial(old, sh) == [old EXCEPT !.X = sh.X, !.cwd = sh.cwd]

\* the SessionState kept after a timed-out command
KeepState(old, sh) == old

\* a timeout that releases the mutex before the restart
HoldDuringRestart_release(c) == 0

\* the mutex after the exec timed out, while the container restarts
HoldDuringRestart(c) == c

\* the bind mount after restart()
Remount(files) == files

\* step 4, first half: bash_timeout elapsed, the exec is cancelled and
\* restart() begins; processes and files inside the container are lost
Timeout(c) ==
    /\ mode = "session"
    /\ s_pc[c] \in {"exec", "running"}
    /\ container_up' = FALSE
    /\ tmp_lock' = FALSE
    /\ survived' = bind_fs
    /\ bind_fs' = Remount(bind_fs)
    /\ timeouts' = timeouts + 1
    /\ session_state' = KeepState(session_state, shell[c])
    /\ mutex' = IF mutex = c THEN HoldDuringRestart(c) ELSE mutex
    /\ s_pc' = [s_pc EXCEPT ![c] = "restarting"]
    /\ UNCHANGED <<s_cmd, shell, results, commands_history>>
    /\ UNCHANGED <<batchVars, resumeVars, formatVars, restVars>>

\* step 4, second half: the container is back; result with exit_code null
Restarted(c) ==
    /\ mode = "session"
    /\ s_pc[c] = "restarting"
    /\ container_up' = TRUE
    /\ commands_history' =
           Append(commands_history, [command |-> s_cmd[c], exit_code |-> None])
    /\ results' = [results EXCEPT ![c] =
                     [output |-> [NoOutput EXCEPT !.text = "timeout"],
                      exit_code |-> None,
                      pos |-> Len(commands_history) + 1,
                      epoch |-> timeouts]]
    /\ mutex' = IF mutex = c THEN 0 ELSE mutex
    /\ s_pc' = [s_pc EXCEPT ![c] = "done"]
    /\ UNCHANGED <<s_cmd, session_state, shell, tmp_lock, bind_fs, timeouts,
                   survived>>
    /\ UNCHANGED <<batchVars, resumeVars, formatVars, restVars>>

Init == InitBatch /\ InitSession /\ InitResume /\ IdleFormat /\ IdleRest

Next ==
    \/ \E j \in Jobs : run_single_repo(j)
    \/ \E j \in Jobs : Prepare(j)
    \/ \E j \in Jobs : Create(j)
    \/ \E j \in Jobs : Start(j)
    \/ \E j \in Jobs : Wait(j)
    \/ \E j \in Jobs : Log(j)
    \/ \E j \in Jobs : Delete(j)
    \/ \E j \in Jobs : Close(j)
    \/ \E j \in Jobs : runner(j)
    \/ \E j \in Jobs : Instantiate(j)
    \/ \E j \in Jobs : Arun(j)
    \/ \E j \in Jobs : Clean(j)
    \/ Gather

Spec == Init /\ [][Next]_vars

\* ------------------------------------- specification of the session alone
InitExecutor ==
    /\ mode = "session"
    /\ limit = 0
    /\ language = "python"
    /\ global_timeout = FALSE
    /\ semaphore = 0
    /\ batch = "gathering"
    /\ pc = [j \in Jobs |-> "queued"]
    /\ json_result = [j \in Jobs |-> InitialResult]
    /\ container = [j \in Jobs |-> "None"]
    /\ status = [j \in Jobs |-> None]
    /\ script = [j \in Jobs |-> FALSE]
    /\ creates = [j \in Jobs |-> 0]
    /\ deletes = [j \in Jobs |-> 0]
    /\ cleared = [j \in Jobs |-> FALSE]
    /\ written = [j \in Jobs |-> 0]
    /\ phase = [j \in Jobs |-> "none"]
    /\ downloaded = [j \in Jobs |-> "pending"]
    /\ exc = [j \in Jobs |-> "none"]
    /\ assigned = [j \in Jobs |-> 0]
    /\ InitSession
    /\ InitResume
    /\ IdleFormat
    /\ IdleRest

NextExecutor ==
    \/ \E c \in Calls : Call(c)
    \/ \E c \in Calls : Acquire(c)
    \/ \E c \in Calls : Begin(c)
    \/ \E c \in Calls : Complete(c)
    \/ \E c \in Calls : Timeout(c)
    \/ \E c \in Calls : Restarted(c)

SpecExecutor == InitExecutor /\ [][NextExecutor]_vars

\* ----------------------- evaluation/main.py: result files across runs
\* Python strings are the sequences of their characters.
RECURSIVE Repeat(_, _)
Repeat(ch, k) == IF k = 0 THEN <<>> ELSE <<ch>> \o Repeat(ch, k - 1)

\* repository names "o/rr", "o/r_r", "o/r__r", ... and two revisions
RepoNames ==
    {<<"o", "/", "r">> \o Repeat("_", k) \o <<"r">> : k \in 0..MaxUnderscores}
Revisions == {"sha1", "sha2"}
JobIds == [repo_name : RepoNames, commit_sha : Revisions]

\* str.replace(old, new): leftmost non-overlapping occurrences
RECURSIVE replace(_, _, _)
replace(str, old, new) ==
    IF Len(str) < Len(old) THEN str
    ELSE IF SubSeq(str, 1, Len(old)) = old
    THEN new \o replace(SubSeq(str, Len(old) + 1, Len(str)), old, new)
    ELSE <<Head(str)>> \o replace(Tail(str), old, new)

json_suffix == <<".", "j", "s", "o", "n">>

\* f"{repo_name.replace('/', '__')}.json"
json_path(repo_name) == replace(repo_name, <<"/">>, <<"_", "_">>) \o json_suffix

\* file[: -len(".json")].replace("__", "/")
processed_repo(file) ==
    replace(SubSeq(file, 1, Len(file) - Len(json_suffix)), <<"_", "_">>, <<"/">>)

processed_repos(dir) == {processed_repo(file) : file \in DOMAIN dir}

\* repos.loc[~repos[repo_name_col].isin(processed_repos_df[repo_name_col])]
Unprocessed(rows, dir) ==
    {row \in rows : row.repo_name \notin processed_repos(dir)}

\* with open(json_path, "w") as f: json.dump(json_result, f)
Dump(dir, job) ==
    [file \in (DOMAIN dir) \cup {json_path(job.repo_name)} |->
        IF file = json_path(job.repo_name) THEN job ELSE dir[file]]

\* main() up to the call of run_batch_async
main ==
    /\ m_pc = "idle"
    /\ \E rewrite \in BOOLEAN,
          rows \in {S \in SUBSET JobIds : Cardinality(S) \in 1..NJobs} :
         /\ rewrite_results' = rewrite
         /\ submitted' = rows
         /\ IF ~rewrite
            THEN /\ repos' = Unprocessed(rows, results_dir)
                 /\ pending' = Unprocessed(rows, results_dir)
                 /\ UNCHANGED results_dir
            ELSE /\ results_dir' = NoFiles
                 /\ repos' = rows
                 /\ pending' = rows
    /\ m_pc' = "running"
    /\ UNCHANGED <<batchVars, sessionVars, formatVars, restVars>>

\* one job of the run ends, with its record dumped or (see Prepare, Close)
\* without one
EndJob(job) ==
    /\ m_pc = "running"
    /\ job \in pending
    /\ pending' = pending \ {job}
    /\ \E dumped \in BOOLEAN :
         results_dir' = IF dumped THEN Dump(results_dir, job) ELSE results_dir
    /\ UNCHANGED <<m_pc, rewrite_results, submitted, repos>>
    /\ UNCHANGED <<batchVars, sessionVars, formatVars, restVars>>

\* run_batch_async returns and main() with it
main_returns ==
    /\ m_pc = "running"
    /\ pending = {}
    /\ m_pc' = "idle"
    /\ UNCHANGED <<rewrite_results, results_dir, submitted, repos, pending>>
    /\ UNCHANGED <<batchVars, sessionVars, formatVars, restVars>>

InitMain ==
    IdleBatch("main") /\ InitSession /\ InitResume /\ IdleFormat /\ IdleRest

NextMain ==
    \/ main
    \/ \E job \in JobIds : EndJob(job)
    \/ main_returns

SpecMain == InitMain /\ [][NextMain]_vars

\* ------------------- inference/main.py: trajectory files across runs
\* The same six variables hold a run of inference/main.py's main():
\* results_dir is cfg_model.logging_dir (file name -> what the file holds),
\* rewrite_results is cfg_model.rewrite_trajectories, submitted the data
\* source, repos the examples_to_process, pending the datapoints running.
DataRepositories == {<<"o", "/", "r", "r">>, <<"o", "/", "r", "_", "_", "r">>}
DataRevisions == {<<"a">>, <<"b">>}
Datapoints == [repository : DataRepositories, revision : DataRevisions]

jsonl_suffix == <<".", "j", "s", "o", "n", "l">>

\* the trajectory file of a datapoint:
\* f"{repository.replace('/', '__')}@{revision}.jsonl"
trajectory_file(example) ==
    replace(example.repository, <<"/">>, <<"_", "_">>) \o <<"@">>
        \o example.revision \o jsonl_suffix

\* str.split(sep) for a separator of one character
RECURSIVE split(_, _)
split(str, sep) ==
    IF str = <<>> THEN <<<<>>>>
    ELSE LET parts == split(Tail(str), sep)
         IN IF Head(str) = sep THEN <<<<>>>> \o parts
            ELSE <<<<Head(str)>> \o Head(parts)>> \o Tail(parts)

\* what a trajectory file holds: no line, lines whose last one is not the
\* commands_history node, lines ending with the commands_history node
FileStates == {"empty", "incomplete", "complete"}

\* repository, revision = trajectory_file[: -len(".jsonl")].split("@"),
\* then repository.replace("__", "/")
processed_trajectory(file) ==
    LET parts == split(SubSeq(file, 1, Len(file) - Len(jsonl_suffix)), "@")
    IN [repository |-> replace(parts[1], <<"_", "_">>, <<"/">>),
        revision |-> parts[2]]

\* messages and messages[-1]["node"] == "commands_history"
processed_trajectories(dir) ==
    {processed_trajectory(file) :
         file \in {f \in DOMAIN dir : dir[f] = "complete"}}

\* the unpacking of the split raises ValueError unless it gives two parts
Unpacks(dir) ==
    \A file \in DOMAIN dir :
        Len(split(SubSeq(file, 1, Len(file) - Len(jsonl_suffix)), "@")) = 2

\* main() up to the start of the coroutines
inference_main ==
    /\ mode = "inference_main"
    /\ m_pc = "idle"
    /\ \E rewrite \in BOOLEAN,
          rows \in {S \in SUBSET Datapoints : Cardinality(S) \in 1..NJobs} :
         /\ rewrite_results' = rewrite
         /\ submitted' = rows
         /\ IF ~rewrite
            THEN /\ Unpacks(results_dir)
                 /\ repos' = {example \in rows :
                                example \notin processed_trajectories(results_dir)}
                 /\ UNCHANGED results_dir
            ELSE /\ results_dir' = NoFiles
                 /\ repos' = rows
         /\ pending' = repos'
    /\ m_pc' = "running"
    /\ UNCHANGED <<batchVars, sessionVars, formatVars, restVars>>

\* the trajectory file of a datapoint after its run
WriteTrajectory(dir, example, state) ==
    [file \in (DOMAIN dir) \cup {trajectory_file(example)} |->
        IF file = trajectory_file(example) THEN state ELSE dir[file]]

\* process_single_datapoint ends: the runner has left no file (an error
\* before the first entry, or log_trajectory off), or a file in one of its
\* states
EndDatapoint(example) ==
    /\ mode = "inference_main"
    /\ m_pc = "running"
    /\ example \in pending
    /\ pending' = pending \ {example}
    /\ \/ UNCHANGED results_dir
       \/ \E state \in FileStates :
              results_dir' = WriteTrajectory(results_dir, example, state)
    /\ UNCHANGED <<m_pc, rewrite_results, submitted, repos>>
    /\ UNCHANGED <<batchVars, sessionVars, formatVars, restVars>>

\* run_limited / the as_completed loop is over and main() returns
inference_main_returns ==
    /\ mode = "inference_main"
    /\ m_pc = "running"
    /\ pending = {}
    /\ m_pc' = "idle"
    /\ UNCHANGED <<rewrite_results, results_dir, submitted, repos, pending>>
    /\ UNCHANGED <<batchVars, sessionVars, formatVars, restVars>>

InitInferenceMain ==
    IdleBatch("inference_main") /\ InitSession /\ InitResume /\ IdleFormat
                                /\ IdleRest

NextInferenceMain ==
    \/ inference_main
    \/ \E example \in Datapoints : EndDatapoint(example)
    \/ inference_main_returns

SpecInferenceMain == InitInferenceMain /\ [][NextInferenceMain]_vars

\* --------------------------- the executor's formatting of a command result
OutputChars == {"a", "\n"}

RECURSIVE Texts(_)
Texts(n) ==
    IF n = 0 THEN {<<>>}
    ELSE Texts(n - 1) \cup
         {t \o <<ch>> : t \in {u \in Texts(n - 1) : Len(u) = n - 1},
                          ch \in OutputChars}

\* exit statuses of a command that ran to its end
ExitStatuses == {0, 1, 123}

ERROR_PREFIX ==
    <<"E", "R", "R", "O", "R", ":", " ", "C", "o", "u", "l", "d", " ",
      "n", "o", "t", " ", "e", "x", "e", "c", "u", "t", "e", " ",
      "g", "i", "v", "e", "n", " ", "c", "o", "m", "m", "a", "n", "d", "\n">>

DigitChars == <<"0", "1", "2", "3", "4", "5", "6", "7", "8", "9">>

\* str(n)
RECURSIVE Digits(_)
Digits(n) ==
    IF n < 10 THEN <<DigitChars[n + 1]>>
    ELSE Digits(n \div 10) \o <<DigitChars[(n % 10) + 1]>>

\* "\n\n[... {n} lines skipped ...]\n\n"
Marker(n) ==
    <<"\n", "\n", "[", ".", ".", ".", " ">> \o Digits(n) \o
    <<" ", "l", "i", "n", "e", "s", " ", "s", "k", "i", "p", "p", "e", "d",
      " ", ".", ".", ".", "]", "\n", "\n">>

\* number of line ends in the dropped text
RECURSIVE LinesSkipped(_)
LinesSkipped(text) ==
    IF text = <<>> THEN 0
    ELSE (IF Head(text) = "\n" THEN 1 ELSE 0) + LinesSkipped(Tail(text))

\* a truncation that lets every output through
Truncate_keep_all(text, L) == text

\* the first L characters and the skip marker
Truncate(text, L) ==
    IF Len(text) <= L THEN text
    ELSE SubSeq(text, 1, L) \o Marker(LinesSkipped(SubSeq(text, L + 1, Len(text))))

\* what a call can end with: an exit status, or None after a timeout
Outcomes == ExitStatuses \cup {None}

\* a check that takes a timed-out command for one that ran
Ran_always(code) == TRUE

\* "the command actually ran (not a timeout)"
Ran(code) == code # None

\* a formatting that puts the prefix on before it truncates
Format_prefix_first(text, code, L) ==
    IF code = 0 \/ ~Ran(code) THEN Truncate(text, L)
    ELSE Truncate(ERROR_PREFIX \o text, L) \o <<"\n">>

\* the text returned to the caller: the truncated output, framed by the
\* error prefix and a newline when the command ran and its status is not 0
Format(text, code, L) ==
    IF code = 0 \/ ~Ran(code) THEN Truncate(text, L)
    ELSE ERROR_PREFIX \o Truncate(text, L) \o <<"\n">>

\* a command has ended; its output and status are about to be formatted
InitFormat ==
    /\ f_pc = "raw"
    /\ command_output \in Texts(MaxOutputLen)
    /\ command_exit \in Outcomes
    /\ max_num_chars_bash_output \in 0..MaxChars
    /\ returned = [text |-> <<>>, exit_code |-> None]

\* execute_bash_command returns (formatted_output, exit_code)
format_output ==
    /\ f_pc = "raw"
    /\ returned' = [text |-> Format(command_output, command_exit,
                                    max_num_chars_bash_output),
                    exit_code |-> command_exit]
    /\ f_pc' = "formatted"
    /\ UNCHANGED <<command_output, command_exit, max_num_chars_bash_output>>
    /\ UNCHANGED <<batchVars, sessionVars, resumeVars, restVars>>

InitFormatting ==
    IdleBatch("format") /\ InitSession /\ InitResume /\ InitFormat /\ IdleRest

NextFormat == format_output

SpecFormat == InitFormatting /\ [][NextFormat]_vars

\* ------------------------------------ toolkits over the bash executor
\* EnvSetupToolkit members ("bash_jvm", "bash_python" and "installamatic"
\* take the same path as "bash")
Toolkits == {"bash", "shellcheck", "readonly"}

\* commands a tool call can carry: one that only reads, one that writes
ToolCommands == {"ls", "touch"}
WriteIntent(command) == command = "touch"

\* the commands run by create(): the base ones, and for ShellcheckToolkit
\* super().initial_commands() + ["apt-get update && apt-get install -y shellcheck"]
initial_commands(cls) ==
    IF cls = "shellcheck" THEN <<"init", "install_shellcheck">> ELSE <<"init">>

\* read_only = self == EnvSetupToolkit.readonly; AsyncBashExecutor.create(...)
instantiate(t) ==
    /\ tk_pc = "config"
    /\ tk_config' = t
    /\ read_only' = (t = "readonly")
    /\ tk_pc' = "executor"
    /\ UNCHANGED <<tk_class, tk_history, execs, tk_writes, tk_reply, tk_calls>>
    /\ UNCHANGED <<coreVars, graphVars, parseVars, schedulerVars, toolVars>>

\* AsyncBashExecutor.create(..., read_only=ro) called by hand, as the tests do
create_executor(ro) ==
    /\ tk_pc = "config"
    /\ read_only' = ro
    /\ tk_pc' = "executor"
    /\ UNCHANGED <<tk_config, tk_class, tk_history, execs, tk_writes, tk_reply,
                   tk_calls>>
    /\ UNCHANGED <<coreVars, graphVars, parseVars, schedulerVars, toolVars>>

\* a create() that takes any executor
RequiresReadOnly_off(cls) == FALSE

\* "if not bash_executor.read_only: raise ValueError" of the read-only toolkit
RequiresReadOnly(cls) == cls = "readonly"

\* a history that keeps only the latest entry
Recorded_latest(history, entry, add_to_history) ==
    IF add_to_history THEN <<entry>> ELSE history

\* the history after one exec: one entry more, unless add_to_history=False
Recorded(history, entry, add_to_history) ==
    IF add_to_history THEN Append(history, entry) ELSE history

\* the policy check of the read-only mode
Rejected(ro, command) == ro /\ WriteIntent(command)

\* the entries left by the first n commands of create()
RECURSIVE InitialEntries(_, _, _)
InitialEntries(commands, codes, n) ==
    IF n = 0 THEN <<>>
    ELSE Append(InitialEntries(commands, codes, n - 1),
                [command |-> commands[n], exit_code |-> codes[n],
                 add_to_history |-> TRUE])

\* index of the first initial command whose err_code != 0, or the last one
RECURSIVE FirstFailure(_, _)
FirstFailure(codes, i) ==
    IF i >= Len(codes) \/ codes[i] # 0 THEN i ELSE FirstFailure(codes, i + 1)

Entry(e) == [command |-> e.command, exit_code |-> e.exit_code]

RECURSIVE Entries(_)
Entries(log) ==
    IF log = <<>> THEN <<>> ELSE <<Entry(Head(log))>> \o Entries(Tail(log))

\* <Toolkit>.create(bash_executor): the read-only check, then the initial
\* commands until one of them does not return 0
create(cls) ==
    /\ tk_pc = "executor"
    /\ tk_config # "none" => cls = tk_config
    /\ tk_class' = cls
    /\ IF RequiresReadOnly(cls) /\ ~read_only
       THEN /\ tk_pc' = "failed"
            /\ UNCHANGED <<tk_history, execs>>
       ELSE \E codes \in [1..Len(initial_commands(cls)) -> Outcomes] :
              LET n == FirstFailure(codes, 1)
                  ran == InitialEntries(initial_commands(cls), codes, n)
              IN /\ execs' = execs \o ran
                 /\ tk_history' = tk_history \o Entries(ran)
                 /\ tk_pc' = IF codes[n] = 0 THEN "ready" ELSE "failed"
    /\ UNCHANGED <<tk_config, read_only, tk_writes, tk_reply, tk_calls>>
    /\ UNCHANGED <<coreVars, graphVars, parseVars, schedulerVars, toolVars>>

\* _execute_bash_command(command, add_to_history) on the executor
Execute(command, add_to_history) ==
    IF Rejected(read_only, command)
    THEN /\ tk_reply' = "rejected"
         /\ UNCHANGED <<execs, tk_history, tk_writes>>
    ELSE \E code \in Outcomes :
           LET e == [command |-> command, exit_code |-> code,
                     add_to_history |-> add_to_history]
           IN /\ execs' = Append(execs, e)
              /\ tk_history' = Recorded(tk_history, Entry(e), add_to_history)
              /\ tk_writes' = IF WriteIntent(command) /\ code = 0
                              THEN tk_writes + 1 ELSE tk_writes
              /\ tk_reply' = IF code = None THEN "timeout"
                             ELSE IF code = 0 THEN "output" ELSE "error"

\* the execute_bash_command tool of the terminal toolkits
execute_bash_command ==
    /\ tk_pc = "ready"
    /\ tk_class \in {"bash", "readonly"}
    /\ tk_calls < MaxToolCalls
    /\ tk_calls' = tk_calls + 1
    /\ \E command \in ToolCommands : Execute(command, TRUE)
    /\ UNCHANGED <<tk_pc, tk_config, tk_class, read_only>>
    /\ UNCHANGED <<coreVars, graphVars, parseVars, schedulerVars, toolVars>>

\* ShellcheckToolkit._run_shellcheck: add_to_history=False
run_shellcheck ==
    /\ tk_pc = "ready"
    /\ tk_class = "shellcheck"
    /\ tk_calls < MaxToolCalls
    /\ tk_calls' = tk_calls + 1
    /\ Execute("shellcheck", FALSE)
    /\ UNCHANGED <<tk_pc, tk_config, tk_class, read_only>>
    /\ UNCHANGED <<coreVars, graphVars, parseVars, schedulerVars, toolVars>>

InitToolkits ==
    IdleBatch("toolkit") /\ InitSession /\ InitResume /\ IdleFormat
                         /\ InitToolkit /\ IdleGraph /\ IdleParse
                         /\ IdleScheduler /\ IdleTools

NextToolkit ==
    \/ \E t \in Toolkits : instantiate(t)
    \/ \E ro \in BOOLEAN : create_executor(ro)
    \/ \E cls \in Toolkits : create(cls)
    \/ execute_bash_command
    \/ run_shellcheck

SpecToolkit == InitToolkits /\ [][NextToolkit]_vars

\* ------------------------------------------- the agent workflows
\* Each workflow is a compiled graph: one node runs at a time, its update
\* is merged into the state, and the edges pick the node that runs next.
Workflows == {"try_again", "shellcheck", "readonly", "readonly_v2",
              "rebench_readonly"}
END == "__end__"

Rewards == 0..2
Thresholds == 1..2

\* tool_call_id: the id of an AI message's tool call, and the id a
\* ToolMessage answers; None where the workflow never looks at it
HumanMessage(c) ==
    [type |-> "human", content |-> c, reward_score |-> None,
     tool_calls |-> "none", tool_call_id |-> None]
AIMessage(c, calls) ==
    [type |-> "ai", content |-> c, reward_score |-> None, tool_calls |-> calls,
     tool_call_id |-> None]
ToolMessage(c) ==
    [type |-> "tool", content |-> c, reward_score |-> None,
     tool_calls |-> "none", tool_call_id |-> None]

\* the messages the caller puts in the initial state
InitialMessages == {<<HumanMessage("prompt")>>,
                    <<HumanMessage("system"), HumanMessage("prompt")>>}

Last(seq) == seq[Len(seq)]

\* the other parts of the system, untouched by a workflow
UnchangedByGraph ==
    UNCHANGED <<coreVars, toolkitVars, parseVars, schedulerVars, toolVars>>
Parameters == <<workflow, max_iterations, reward_score_for_pass,
                do_summarization, initial, max_script_generation_attempts>>

\* the script the workflow holds and the ones its agent has recorded
Scripts == <<shell_script, resulting_commands>>

\* one node has run
NodeRan == node_runs' = node_runs + 1

\* --- try_again_paper/graph.py
\* initialize_state: the defaults, since the initial state carries neither
\* "turn" nor "max_turns"; the edge to run_turn is unconditional
ta_initialize_state ==
    /\ workflow = "try_again"
    /\ node = "initialize"
    /\ turn' = 0
    /\ max_turns' = max_iterations
    /\ node' = "run_turn"
    /\ NodeRan
    /\ UNCHANGED <<Parameters, messages, should_continue, invocations>>
    /\ UNCHANGED Scripts
    /\ UnchangedByGraph

\* if reward_score < reward_score_for_pass: feedback_messages.append(...)
NeedsFeedback_always(reward_score, threshold) == TRUE
NeedsFeedback(reward_score, threshold) == reward_score < threshold

\* the conditional edge after run_turn
ta_should_continue(t, mt, msgs) ==
    IF t >= mt THEN END
    ELSE IF Last(msgs).type = "ai" THEN END
    ELSE "run_turn"

\* run_turn: the model answers, the reward function scores the answer
run_turn(reward_score) ==
    /\ workflow = "try_again"
    /\ node = "run_turn"
    /\ LET new_message == [AIMessage("script", "none")
                            EXCEPT !.reward_score = reward_score]
           feedback_messages ==
               IF NeedsFeedback(reward_score, reward_score_for_pass)
               THEN <<HumanMessage("feedback")>> ELSE <<>>
       IN /\ messages' = messages \o <<new_message>> \o feedback_messages
          /\ turn' = turn + 1
          /\ invocations' = invocations \o <<"model", "reward">>
          /\ node' = ta_should_continue(turn', max_turns, messages')
    /\ NodeRan
    /\ UNCHANGED <<Parameters, max_turns, should_continue>>
    /\ UNCHANGED Scripts
    /\ UnchangedByGraph

\* --- shellcheck/graph.py
sc_initialize_state ==
    /\ workflow = "shellcheck"
    /\ node = "initialize"
    /\ turn' = 0
    /\ max_turns' = max_iterations
    /\ should_continue' = None
    /\ shell_script' = None
    /\ node' = "model"
    /\ NodeRan
    /\ UNCHANGED <<Parameters, messages, invocations, resulting_commands>>
    /\ UnchangedByGraph

\* call_model: the answer holds a ```bash block ("bash") or none ("text")
sc_call_model(content) ==
    /\ workflow = "shellcheck"
    /\ node = "model"
    /\ messages' = messages \o <<AIMessage(content, "none")>>
    /\ invocations' = invocations \o <<"model">>
    /\ node' = "process_output"
    /\ NodeRan
    /\ UNCHANGED <<Parameters, turn, max_turns, should_continue>>
    /\ UNCHANGED Scripts
    /\ UnchangedByGraph

\* re.findall(r"```bash(.*?)```", content, re.DOTALL)
HasBashBlock_always(message) == TRUE
HasBashBlock(message) == message.content = "bash"

\* the text of a ```bash block, named by the position in the message list
\* of the message that holds it
BlockOf(msgs) == Len(msgs)

\* process_model_output, then the edge on state["should_continue"]; the
\* update carries "script" on the last return only, and
\* ShellcheckAgent.process_update_for_trajectory appends the update's script
\* to the agent's commands
process_model_output ==
    /\ workflow = "shellcheck"
    /\ node = "process_output"
    /\ should_continue' =
           IF turn >= max_turns THEN FALSE
           ELSE IF ~HasBashBlock(Last(messages)) THEN FALSE
           ELSE TRUE
    /\ IF should_continue'
       THEN /\ shell_script' = BlockOf(messages)
            /\ resulting_commands' = Append(resulting_commands, shell_script')
       ELSE UNCHANGED Scripts
    /\ node' = IF should_continue' THEN "run_shellcheck" ELSE END
    /\ NodeRan
    /\ UNCHANGED <<Parameters, messages, turn, max_turns, invocations>>
    /\ UnchangedByGraph

\* run_shellcheck: reached only when should_continue is True
sc_run_shellcheck ==
    /\ workflow = "shellcheck"
    /\ node = "run_shellcheck"
    /\ should_continue = TRUE
    /\ invocations' = invocations \o <<"shellcheck">>
    /\ messages' = messages \o <<HumanMessage("result")>>
    /\ turn' = turn + 1
    /\ node' = "model"
    /\ NodeRan
    /\ UNCHANGED <<Parameters, max_turns, should_continue>>
    /\ UNCHANGED Scripts
    /\ UnchangedByGraph

\* --- readonly/graph.py
\* initialize_state: the agent's initial state carries "turn": 1
ro_initialize_state ==
    /\ workflow = "readonly"
    /\ node = "init_state"
    /\ messages' = IF messages = <<>> THEN <<HumanMessage("prompt")>>
                    ELSE messages
    /\ turn' = 1
    /\ node' = "model"
    /\ NodeRan
    /\ UNCHANGED <<Parameters, max_turns, should_continue, invocations>>
    /\ UNCHANGED Scripts
    /\ UnchangedByGraph

\* Python's truth value of max_iterations: None and 0 are both false
Truthy(n) == n # None /\ n # 0

\* the conditional edge after the model node
route_after_call_model(t, msgs) ==
    IF Truthy(max_iterations) /\ t >= max_iterations
    THEN "force_submit_shell_script_tool_call"
    ELSE IF Last(msgs).type = "ai" /\ Last(msgs).tool_calls # "none"
    THEN IF Last(msgs).tool_calls = "submit_shell_script"
         THEN "submit_shell_script"
         ELSE "tools"
    ELSE "force_submit_shell_script_tool_call"

\* the node raised: the run of the graph ends with the exception
RAISED == "__raised__"

\* the id of the tool call of the message added to msgs
NewCallId(msgs, calls) == IF calls = "none" THEN None ELSE Len(msgs) + 1

\* call_model: the answer calls no tool, a tool, or submit_shell_script
ro_call_model(calls) ==
    /\ workflow = "readonly"
    /\ node = "model"
    /\ Len(messages) < MaxMessages
    /\ messages' = Append(messages,
                          [AIMessage("answer", calls)
                              EXCEPT !.tool_call_id = NewCallId(messages, calls)])
    /\ invocations' = invocations \o <<"model">>
    /\ node' = route_after_call_model(turn, messages')
    /\ NodeRan
    /\ UNCHANGED <<Parameters, turn, max_turns, should_continue>>
    /\ UNCHANGED Scripts
    /\ UnchangedByGraph

\* call_tools: the ToolNode answers the tool call of the last message
call_tools ==
    /\ workflow = "readonly"
    /\ node = "tools"
    /\ messages' = Append(messages,
                          [ToolMessage("result")
                              EXCEPT !.tool_call_id = Last(messages).tool_call_id])
    /\ invocations' = invocations \o <<"tools">>
    /\ turn' = turn + 1
    /\ node' = "model"
    /\ NodeRan
    /\ UNCHANGED <<Parameters, max_turns, should_continue>>
    /\ UNCHANGED Scripts
    /\ UnchangedByGraph

\* the loop over the messages that fills unanswered_tool_calls: an AI
\* message adds its tool call ids, a ToolMessage removes the id it answers,
\* and set.remove raises KeyError for an id that is not in the set
RECURSIVE unanswered_tool_calls(_)
unanswered_tool_calls(msgs) ==
    IF msgs = <<>> THEN [ids |-> {}, KeyError |-> FALSE]
    ELSE LET before == unanswered_tool_calls(SubSeq(msgs, 1, Len(msgs) - 1))
             message == Last(msgs)
         IN IF message.type = "ai" /\ message.tool_calls # "none"
            THEN [before EXCEPT !.ids = @ \cup {message.tool_call_id}]
            ELSE IF message.type = "tool"
            THEN IF message.tool_call_id \in before.ids
                 THEN [before EXCEPT !.ids = @ \ {message.tool_call_id}]
                 ELSE [before EXCEPT !.KeyError = TRUE]
            ELSE before

\* one "already moved on" ToolMessage per unanswered id, in the order the
\* set is iterated
RECURSIVE moved_on(_)
moved_on(ids) ==
    IF ids = {} THEN <<>>
    ELSE LET tool_call_id == CHOOSE i \in ids : TRUE
         IN <<[ToolMessage("moved on") EXCEPT !.tool_call_id = tool_call_id]>>
                \o moved_on(ids \ {tool_call_id})

\* force_submit_shell_script_tool_call: the unanswered tool calls get their
\* ToolMessage (appended to the state's list), then the model is called with
\* tool_choice="submit_shell_script"; calls is what its answer holds
force_submit_shell_script_tool_call(calls) ==
    /\ workflow = "readonly"
    /\ node = "force_submit_shell_script_tool_call"
    /\ LET unanswered == unanswered_tool_calls(messages)
       IN IF unanswered.KeyError
          THEN /\ node' = RAISED
               /\ UNCHANGED <<messages, invocations>>
          ELSE LET asked == messages \o moved_on(unanswered.ids)
               IN /\ messages' =
                        Append(asked, [AIMessage("answer", calls) EXCEPT
                                   !.tool_call_id = NewCallId(asked, calls)])
                  /\ invocations' = invocations \o <<"model">>
                  /\ node' = "submit_shell_script"
    /\ NodeRan
    /\ UNCHANGED <<Parameters, turn, max_turns, should_continue>>
    /\ UNCHANGED Scripts
    /\ UnchangedByGraph

\* submit_shell_script: the script of the last message's submit_shell_script
\* call, ValueError without one; EnvSetupReadOnlyAgent keeps the script of
\* the update as its only command
submit_shell_script ==
    /\ workflow = "readonly"
    /\ node = "submit_shell_script"
    /\ IF /\ messages # <<>>
          /\ Last(messages).type = "ai"
          /\ Last(messages).tool_calls = "submit_shell_script"
       THEN /\ shell_script' = BlockOf(messages)
            /\ resulting_commands' = <<shell_script'>>
            /\ node' = END
       ELSE /\ node' = RAISED
            /\ UNCHANGED Scripts
    /\ NodeRan
    /\ UNCHANGED <<Parameters, messages, turn, max_turns, should_continue,
                   invocations>>
    /\ UnchangedByGraph

\* --- readonly_v2/graph.py
v2_initialize_state ==
    /\ workflow = "readonly_v2"
    /\ node = "init_state"
    /\ messages' = IF messages = <<>> THEN <<HumanMessage("prompt")>>
                    ELSE messages
    /\ turn' = 1
    /\ node' = "model"
    /\ NodeRan
    /\ UNCHANGED <<Parameters, max_turns, should_continue, invocations>>
    /\ UNCHANGED Scripts
    /\ UnchangedByGraph

\* parse_script_from_content: the text of the ```bash block, None without one
parse_script_from_content(msgs) ==
    IF Last(msgs).content = "bash" THEN BlockOf(msgs) ELSE None

\* the conditional edge after the model node
v2_route_after_call_model(t, msgs) ==
    IF Truthy(max_iterations) /\ t >= max_iterations
    THEN "force_script_generation"
    ELSE IF msgs = <<>> THEN "force_script_generation"
    ELSE IF Last(msgs).type = "ai" /\ parse_script_from_content(msgs) # None
    THEN "extract_shell_script"
    ELSE IF Last(msgs).type = "ai" /\ Last(msgs).tool_calls # "none"
    THEN "tools"
    ELSE "force_script_generation"

\* what an answer of the model holds: a ```bash block or none, a tool call
\* or none
Responses == [content : {"bash", "text"}, calls : {"none", "tool"}]

v2_call_model(response) ==
    /\ workflow = "readonly_v2"
    /\ node = "model"
    /\ Len(messages) < MaxMessages
    /\ messages' = Append(messages,
                          [AIMessage(response.content, response.calls) EXCEPT
                              !.tool_call_id = NewCallId(messages, response.calls)])
    /\ invocations' = invocations \o <<"model">>
    /\ node' = v2_route_after_call_model(turn, messages')
    /\ NodeRan
    /\ UNCHANGED <<Parameters, turn, max_turns, should_continue>>
    /\ UNCHANGED Scripts
    /\ UnchangedByGraph

v2_call_tools ==
    /\ workflow = "readonly_v2"
    /\ node = "tools"
    /\ messages' = Append(messages,
                          [ToolMessage("result")
                              EXCEPT !.tool_call_id = Last(messages).tool_call_id])
    /\ invocations' = invocations \o <<"tools">>
    /\ turn' = turn + 1
    /\ node' = "model"
    /\ NodeRan
    /\ UNCHANGED <<Parameters, max_turns, should_continue>>
    /\ UNCHANGED Scripts
    /\ UnchangedByGraph

\* for attempt in range(max_script_generation_attempts): the loop is left
\* at the first response with a script, else after the last attempt
LoopRuns(responses, attempts) ==
    /\ Len(responses) <= attempts
    /\ \A i \in 1..(Len(responses) - 1) : responses[i].content # "bash"
    /\ \/ Len(responses) = attempts
       \/ responses # <<>> /\ Last(responses).content = "bash"

\* the message list after the loop ran on these responses: each attempt
\* appends its HumanMessage, and the response is appended after it
RECURSIVE retry(_, _, _)
retry(msgs, responses, attempt) ==
    IF responses = <<>> THEN msgs
    ELSE LET asked == Append(msgs, HumanMessage(IF attempt = 0 THEN "generate"
                                                ELSE "try again"))
             response == [AIMessage(Head(responses).content,
                                    Head(responses).calls) EXCEPT
                             !.tool_call_id =
                                 NewCallId(asked, Head(responses).calls)]
         IN retry(Append(asked, response), Tail(responses), attempt + 1)

\* force_script_generation: the unanswered tool calls get their ToolMessage,
\* then the retry loop; with no attempt at all the return statement reads
\* the unbound name response (UnboundLocalError)
force_script_generation(responses) ==
    /\ workflow = "readonly_v2"
    /\ node = "force_script_generation"
    /\ LoopRuns(responses, max_script_generation_attempts)
    /\ LET unanswered == unanswered_tool_calls(messages)
       IN IF unanswered.KeyError
          THEN /\ node' = RAISED
               /\ UNCHANGED <<messages, invocations>>
               /\ UNCHANGED Scripts
          ELSE /\ messages' = retry(messages \o moved_on(unanswered.ids),
                                    responses, 0)
               /\ invocations' =
                      invocations \o [i \in 1..Len(responses) |-> "model"]
               /\ IF responses = <<>>
                  THEN /\ node' = RAISED
                       /\ UNCHANGED Scripts
                  ELSE /\ shell_script' = parse_script_from_content(messages')
                       /\ resulting_commands' =
                              IF shell_script' # None THEN <<shell_script'>>
                              ELSE <<>>
                       /\ node' = END
    /\ NodeRan
    /\ UNCHANGED <<Parameters, turn, max_turns, should_continue>>
    /\ UnchangedByGraph

\* extract_shell_script: the script of the last message, None without one
extract_shell_script ==
    /\ workflow = "readonly_v2"
    /\ node = "extract_shell_script"
    /\ shell_script' =
           IF messages # <<>> /\ Last(messages).type = "ai"
           THEN parse_script_from_content(messages) ELSE None
    /\ resulting_commands' =
           IF shell_script' # None THEN <<shell_script'>> ELSE <<>>
    /\ node' = END
    /\ NodeRan
    /\ UNCHANGED <<Parameters, messages, turn, max_turns, should_continue,
                   invocations>>
    /\ UnchangedByGraph

\* --- rebench_readonly/graph.py
\* initialize_state: the state's messages become the ReAct prompt
rr_initialize_state ==
    /\ workflow = "rebench_readonly"
    /\ node = "initialize"
    /\ messages' = <<HumanMessage("prompt")>>
    /\ node' = "start_exploration"
    /\ NodeRan
    /\ UNCHANGED <<Parameters, turn, max_turns, should_continue, invocations>>
    /\ UNCHANGED Scripts
    /\ UnchangedByGraph

STOP == "Sorry, need more steps to process this request."

IsAI(m) == m.type = "ai"

\* limit_turns: with max_turns AI messages in the state, add the stop message
limit_turns(msgs) ==
    IF Len(SelectSeq(msgs, IsAI)) >= max_iterations
    THEN msgs \o <<AIMessage(STOP, "none")>>
    ELSE msgs

\* start_exploration builds the ReAct agent and runs it on the state: the
\* agent's loop is pre_model_hook -> model -> tools -> pre_model_hook ...,
\* left when the model answers without a tool call
start_exploration ==
    /\ workflow = "rebench_readonly"
    /\ node = "start_exploration"
    /\ node' = "agent:pre_model_hook"
    /\ NodeRan
    /\ UNCHANGED <<Parameters, messages, turn, max_turns, should_continue,
                   invocations>>
    /\ UNCHANGED Scripts
    /\ UnchangedByGraph

pre_model_hook ==
    /\ workflow = "rebench_readonly"
    /\ node = "agent:pre_model_hook"
    /\ messages' = limit_turns(messages)
    /\ node' = "agent:model"
    /\ UNCHANGED <<Parameters, turn, max_turns, should_continue, invocations,
                   node_runs>>
    /\ UNCHANGED Scripts
    /\ UnchangedByGraph

\* the agent's model node: the answer calls bash_tool or ends the exploration
agent_model(calls) ==
    /\ workflow = "rebench_readonly"
    /\ node = "agent:model"
    /\ calls = "bash_tool" => Len(messages) + 2 <= MaxMessages
    /\ messages' = messages \o <<AIMessage("answer", calls)>>
    /\ invocations' = invocations \o <<"model">>
    /\ node' = IF calls = "none" THEN "optional_summarization"
               ELSE "agent:tools"
    /\ UNCHANGED <<Parameters, turn, max_turns, should_continue, node_runs>>
    /\ UNCHANGED Scripts
    /\ UnchangedByGraph

agent_tools ==
    /\ workflow = "rebench_readonly"
    /\ node = "agent:tools"
    /\ messages' = messages \o <<ToolMessage("result")>>
    /\ invocations' = invocations \o <<"tools">>
    /\ node' = "agent:pre_model_hook"
    /\ UNCHANGED <<Parameters, turn, max_turns, should_continue, node_runs>>
    /\ UNCHANGED Scripts
    /\ UnchangedByGraph

\* optional_summarization: the summary replaces the exploration's messages,
\* without it the script prompt is added to them
optional_summarization ==
    /\ workflow = "rebench_readonly"
    /\ node = "optional_summarization"
    /\ IF do_summarization
       THEN /\ messages' = <<HumanMessage("summarize"),
                             AIMessage("summary", "none"),
                             HumanMessage("script prompt")>>
            /\ invocations' = invocations \o <<"model">>
       ELSE /\ messages' = messages \o <<HumanMessage("script prompt")>>
            /\ UNCHANGED invocations
    /\ node' = "generate_bash_script"
    /\ NodeRan
    /\ UNCHANGED <<Parameters, turn, max_turns, should_continue>>
    /\ UNCHANGED Scripts
    /\ UnchangedByGraph

generate_bash_script ==
    /\ workflow = "rebench_readonly"
    /\ node = "generate_bash_script"
    /\ messages' = messages \o <<AIMessage("script", "none")>>
    /\ invocations' = invocations \o <<"model">>
    /\ node' = END
    /\ NodeRan
    /\ UNCHANGED <<Parameters, turn, max_turns, should_continue>>
    /\ UNCHANGED Scripts
    /\ UnchangedByGraph

\* a compiled workflow, about to be invoked on an initial state
EntryPoint(w) ==
    IF w \in {"readonly", "readonly_v2"} THEN "init_state" ELSE "initialize"

InitGraph ==
    /\ workflow \in Workflows
    /\ max_iterations \in 0..MaxIterations
    /\ reward_score_for_pass \in
           (IF workflow = "try_again" THEN Thresholds ELSE {1})
    /\ do_summarization \in
           (IF workflow = "rebench_readonly" THEN BOOLEAN ELSE {FALSE})
    /\ initial \in
           (IF workflow \in {"readonly", "readonly_v2", "rebench_readonly"}
            THEN {<<>>} ELSE InitialMessages)
    /\ max_script_generation_attempts \in
           (IF workflow = "readonly_v2" THEN 0..MaxAttempts ELSE {0})
    /\ node = EntryPoint(workflow)
    /\ messages = initial
    /\ turn = None
    /\ max_turns = None
    /\ should_continue = None
    /\ invocations = <<>>
    /\ node_runs = 0
    /\ shell_script = None
    /\ resulting_commands = <<>>

InitGraphs ==
    IdleBatch("graph") /\ InitSession /\ InitResume /\ IdleFormat
                       /\ InitToolkit /\ InitGraph /\ IdleParse
                       /\ IdleScheduler /\ IdleTools

NextGraph ==
    \/ ta_initialize_state
    \/ \E reward_score \in Rewards : run_turn(reward_score)
    \/ sc_initialize_state
    \/ \E content \in {"bash", "text"} : sc_call_model(content)
    \/ process_model_output
    \/ sc_run_shellcheck
    \/ ro_initialize_state
    \/ \E calls \in {"none", "tool", "submit_shell_script"} : ro_call_model(calls)
    \/ call_tools
    \/ \E calls \in {"none", "submit_shell_script"} :
           force_submit_shell_script_tool_call(calls)
    \/ submit_shell_script
    \/ v2_initialize_state
    \/ \E response \in Responses : v2_call_model(response)
    \/ v2_call_tools
    \/ \E n \in 0..MaxAttempts : \E responses \in [1..n -> Responses] :
           force_script_generation(responses)
    \/ extract_shell_script
    \/ rr_initialize_state
    \/ start_exploration
    \/ pre_model_hook
    \/ \E calls \in {"none", "bash_tool"} : agent_model(calls)
    \/ agent_tools
    \/ optional_summarization
    \/ generate_bash_script

SpecGraph == InitGraphs /\ [][NextGraph]_vars

\* every enabled node eventually runs: the graph runner never idles
SpecGraphFair == SpecGraph /\ WF_vars(NextGraph)

\* ------------------- env_setup_utils/process_trajectories_to_scripts.py
\* Python strings are the sequences of their characters.
LS == <<"l", "s">>
MVN == <<"m", "v", "n", " ", "i">>
SHEBANG == <<"#", "!", "/", "b", "i", "n", "/", "b", "a", "s", "h", "\n", "\n">>
SCRIPT_LS == SHEBANG \o <<"l", "s">>
SCRIPT_CD == SHEBANG \o <<"c", "d">>
CommandTexts == {LS, MVN, SCRIPT_LS, SCRIPT_CD}

\* an entry of the commands list: a command with its exit code (None when
\* the command timed out), or a JSON null
Null == [null |-> TRUE]
CommandEntries ==
    [command : CommandTexts, exit_code : {0, 1, None}] \cup {Null}

RECURSIVE SeqsUpTo(_, _)
SeqsUpTo(S, n) ==
    IF n = 0 THEN {<<>>}
    ELSE LET shorter == SeqsUpTo(S, n - 1)
         IN shorter \cup {Append(q, x) : q \in shorter, x \in S}

\* the trajectories: empty, ending with a model node, ending with a
\* commands_history node with or without a commands list
Trajectories ==
    {<<>>, <<[node |-> "model"]>>,
     <<[node |-> "model"], [node |-> "commands_history"]>>}
    \cup {<<[node |-> "model"], [node |-> "commands_history", commands |-> cs]>> :
              cs \in SeqsUpTo(CommandEntries, MaxCommands)}

\* str.startswith
startswith(text, prefix) ==
    /\ Len(text) >= Len(prefix)
    /\ SubSeq(text, 1, Len(prefix)) = prefix

\* sep.join(parts)
RECURSIVE join(_, _)
join(sep, parts) ==
    IF parts = <<>> THEN <<>>
    ELSE IF Len(parts) = 1 THEN parts[1]
    ELSE parts[1] \o sep \o join(sep, Tail(parts))

filter_command(command) == command.exit_code = 0

format_command(command) ==
    IF filter_command(command) THEN command.command
    ELSE <<"#", " ">> \o command.command

NotNull(command) == command # Null

parse_script(t) ==
    IF t = <<>> THEN <<>>
    ELSE LET last_message == Last(t)
         IN IF last_message.node # "commands_history" THEN <<>>
            ELSE LET listed == IF "commands" \in DOMAIN last_message
                               THEN last_message.commands ELSE <<>>
                     commands == SelectSeq(listed, NotNull)
                 IN IF \A i \in 1..Len(commands) :
                           startswith(commands[i].command, SHEBANG)
                    THEN IF Len(commands) > 0 THEN Last(commands).command
                         ELSE <<>>
                    ELSE join(<<"\n">>,
                              [i \in 1..Len(commands) |->
                                   format_command(commands[i])])

parse_script_from_trajectory ==
    /\ pt_pc = "call"
    /\ parsed' = parse_script(trajectory)
    /\ pt_pc' = "done"
    /\ UNCHANGED trajectory
    /\ UNCHANGED <<coreVars, toolkitVars, graphVars, schedulerVars, toolVars>>

InitParse ==
    /\ pt_pc = "call"
    /\ trajectory \in Trajectories
    /\ parsed = <<>>

InitParsing ==
    IdleBatch("parse") /\ InitSession /\ InitResume /\ IdleFormat
                       /\ InitToolkit /\ IdleGraph /\ InitParse
                       /\ IdleScheduler /\ IdleTools

NextParse == parse_script_from_trajectory

SpecParse == InitParsing /\ [][NextParse]_vars

\* ----------------- run_batch_async and run_limited on their own
\* The two functions that hand the jobs to asyncio, with a job reduced to
\* the way its own run ends.
Schedulers == {"run_batch_async", "run_limited"}
ExitPaths == {"return", "exception", "timeout"}
Done == {"returned", "raised"}

\* how the job's coroutine leaves the "async with" block: run_opensource
\* turns its timeout into a record and lets some exceptions out;
\* process_single_datapoint catches TimeoutError and Exception alike
Leaves(sched, path) ==
    IF sched = "run_batch_async" /\ path = "exception"
    THEN {"returned", "raised"}
    ELSE {"returned"}

\* Semaphore.__aexit__ releases the permit only after a plain return
aexit_releases_on_return(path) == path = "return"

\* Semaphore.__aexit__ releases the permit however the block is left
aexit_releases(path) == TRUE

\* "async with semaphore" entered: the job holds a permit
enter(j) ==
    /\ call = "pending"
    /\ task[j] = "created"
    /\ ~locked(permits)
    /\ permits' = permits - 1
    /\ task' = [task EXCEPT ![j] = "running"]
    /\ UNCHANGED <<scheduler, batch_size, exit_path, call>>
    /\ UNCHANGED <<coreVars, toolkitVars, graphVars, parseVars, toolVars>>

\* the job's own run ends and the "async with" block is left
leave(j) ==
    /\ call = "pending"
    /\ task[j] = "running"
    /\ \E path \in ExitPaths :
         /\ exit_path' = [exit_path EXCEPT ![j] = path]
         /\ \E t \in Leaves(scheduler, path) :
                task' = [task EXCEPT ![j] = t]
         /\ permits' = IF aexit_releases(path) THEN permits + 1 ELSE permits
    /\ UNCHANGED <<scheduler, batch_size, call>>
    /\ UNCHANGED <<coreVars, toolkitVars, graphVars, parseVars, toolVars>>

\* asyncio.gather: with return_exceptions=True once every job is done;
\* without it also as soon as one job has raised, and then it raises
gather ==
    /\ call = "pending"
    /\ LET raises == scheduler = "run_limited"
                       /\ \E j \in Jobs : task[j] = "raised"
       IN /\ raises \/ \A j \in Jobs : task[j] \in Done
          /\ call' = IF raises THEN "raised" ELSE "returned"
    /\ UNCHANGED <<scheduler, batch_size, permits, task, exit_path>>
    /\ UNCHANGED <<coreVars, toolkitVars, graphVars, parseVars, toolVars>>

\* run_experiment calls run_limited only with a max_concurrent that is true
InitScheduler ==
    /\ scheduler \in Schedulers
    /\ batch_size \in (IF scheduler = "run_limited" THEN 1..MaxWorkers
                       ELSE 0..MaxWorkers)
    /\ permits = batch_size
    /\ task = [j \in Jobs |-> "created"]
    /\ exit_path = [j \in Jobs |-> "none"]
    /\ call = "pending"

InitScheduling ==
    IdleBatch("scheduler") /\ InitSession /\ InitResume /\ IdleFormat
                           /\ InitToolkit /\ IdleGraph /\ IdleParse
                           /\ InitScheduler /\ IdleTools

NextScheduler ==
    \/ \E j \in Jobs : enter(j)
    \/ \E j \in Jobs : leave(j)
    \/ gather

SpecScheduler == InitScheduling /\ [][NextScheduler]_vars

\* the event loop runs every task that can go on, every job's own run
\* ends, and gather is woken when its tasks are done
SpecSchedulerFair ==
    /\ SpecScheduler
    /\ \A j \in Jobs : WF_vars(enter(j)) /\ WF_vars(leave(j))
    /\ WF_vars(gather)

\* ----------------------------- env_setup_utils/analysis/cache_manager.py
\* Several CacheManager objects (the module-level singleton of each analysis
\* script that imports analysis/utils.py) share one cache directory.
RepoIds == {<<"r">>, <<"s">>}
FilePaths == {<<"f">>}
LocalPaths == {"p1", "p2"}

\* os.path.exists(cached_path): the downloaded files stay where they are
Exists(path) == path \in LocalPaths

\* cache_key = f"{repo_id}/{file_path}"
cache_key(repo_id, file_path) == repo_id \o <<"/">> \o file_path

\* dict[key] = value
Put(map, key, value) ==
    [k \in (DOMAIN map) \cup {key} |-> IF k = key THEN value ELSE map[k]]

\* _load_cache_map: the content of cache_map.json, {} without the file
load_cache_map == cache_file

\* get_cached_path
get_cached_path(cache_map, repo_id, file_path, no_cache) ==
    IF no_cache THEN NoPath
    ELSE LET key == cache_key(repo_id, file_path)
         IN IF key \in DOMAIN cache_map /\ Exists(cache_map[key])
            THEN cache_map[key] ELSE NoPath

\* CacheManager(cache_dir)
CacheManager(m) ==
    /\ ~managers[m].built
    /\ managers' = [managers EXCEPT
                       ![m] = [built |-> TRUE, cache_map |-> load_cache_map]]
    /\ UNCHANGED <<cache_file, latest>>
    /\ UNCHANGED <<coreVars, toolkitVars, graphVars, parseVars, schedulerVars,
                   explorerVars>>

\* update_cache: the entry goes into this manager's map, and _save_cache_map
\* writes this manager's map over cache_map.json
update_cache(m, repo_id, file_path, local_path) ==
    /\ managers[m].built
    /\ LET key == cache_key(repo_id, file_path)
           cache_map == Put(managers[m].cache_map, key, local_path)
       IN /\ managers' = [managers EXCEPT ![m].cache_map = cache_map]
          /\ cache_file' = cache_map
          /\ latest' = Put(latest, key, local_path)
    /\ UNCHANGED <<coreVars, toolkitVars, graphVars, parseVars, schedulerVars,
                   explorerVars>>

\* clear_cache
clear_cache(m) ==
    /\ managers[m].built
    /\ managers' = [managers EXCEPT ![m].cache_map = NoFiles]
    /\ cache_file' = NoFiles
    /\ latest' = NoFiles
    /\ UNCHANGED <<coreVars, toolkitVars, graphVars, parseVars, schedulerVars,
                   explorerVars>>

InitCaching ==
    IdleBatch("cache") /\ InitSession /\ InitResume /\ IdleFormat
                       /\ InitToolkit /\ IdleGraph /\ IdleParse
                       /\ IdleScheduler /\ IdleCache /\ IdleExplorer

NextCache ==
    \/ \E m \in Managers : CacheManager(m)
    \/ \E m \in Managers, repo_id \in RepoIds, file_path \in FilePaths,
          local_path \in LocalPaths :
           update_cache(m, repo_id, file_path, local_path)
    \/ \E m \in Managers : clear_cache(m)

SpecCache == InitCaching /\ [][NextCache]_vars

\* ------------------------------- env_setup_utils/pass5_explorer/app.py
\* The results files of the remote dataset; an entry of the index is named
\* by its path ("r" stands for results.jsonl), and the date found in the
\* path gives its last_modified.
P1 == <<"a", "/", "r">>
P2 == <<"b", "/", "r">>
P3 == <<"b", "/", "x", "/", "r">>
ResultPaths == {P1, P2, P3}

last_modified(path) ==
    CASE path = P1 -> 3
      [] path = P2 -> 2
      [] path = P3 -> 1

\* os.path.dirname
RECURSIVE dirname(_)
dirname(path) ==
    IF path = <<>> THEN <<>>
    ELSE IF Last(path) = "/" THEN SubSeq(path, 1, Len(path) - 1)
    ELSE dirname(SubSeq(path, 1, Len(path) - 1))

\* the folders walk_directory goes through on its way to a file: the root
\* (rel_path "") and every folder above the file
RECURSIVE folders_above(_)
folders_above(path) ==
    LET parent == dirname(path)
    IN IF parent = <<>> THEN {<<>>} ELSE {parent} \cup folders_above(parent)

\* walk_directory: the results files not known yet, below no known folder
walk_directory(known_files, known_folders) ==
    {path \in dataset :
        path \notin known_files /\ folders_above(path) \cap known_folders = {}}

\* deduped_results.sort(key=last_modified, reverse=True)
RECURSIVE sorted(_)
sorted(paths) ==
    IF paths = {} THEN <<>>
    ELSE LET first == CHOOSE p \in paths :
                          \A q \in paths : last_modified(q) <= last_modified(p)
         IN <<first>> \o sorted(paths \ {first})

NotLoaded == [loaded |-> FALSE, files |-> <<>>]
Loaded(files) == [loaded |-> TRUE, files |-> files]
NoCacheFile == [exists |-> FALSE, valid |-> FALSE, files |-> <<>>]
CacheOf(files) == [exists |-> TRUE, valid |-> TRUE, files |-> files]
Corrupt == [exists |-> TRUE, valid |-> FALSE, files |-> <<>>]

\* walk_dataset_for_results on the list in memory and the cache file: the
\* new list in memory, the new cache file, and whether fs.ls was called
walk_dataset_for_results(memory, cache, force_recache) ==
    IF ~force_recache /\ memory.loaded
    THEN [memory |-> memory, cache |-> cache, listed |-> FALSE]
    ELSE IF ~force_recache /\ cache.exists
    THEN [memory |-> Loaded(IF cache.valid THEN cache.files ELSE <<>>),
          cache |-> cache, listed |-> FALSE]
    ELSE LET cached_files == IF cache.exists /\ cache.valid THEN cache.files
                             ELSE <<>>
             known_files == {cached_files[i] : i \in 1..Len(cached_files)}
             known_folders == {dirname(path) : path \in known_files}
             new_results == walk_directory(known_files, known_folders)
             deduped_results == sorted(known_files \cup new_results)
         IN [memory |-> Loaded(deduped_results),
             cache |-> CacheOf(deduped_results), listed |-> TRUE]

get_results_files ==
    /\ last_call.op # "none"
    /\ LET walk == walk_dataset_for_results(results_files, results_cache, FALSE)
       IN /\ results_files' = walk.memory
          /\ results_cache' = walk.cache
          /\ last_call' = [op |-> "get", listed |-> walk.listed,
                           returned |-> walk.memory.files]
    /\ UNCHANGED dataset
    /\ UNCHANGED <<coreVars, toolkitVars, graphVars, parseVars, schedulerVars,
                   cacheVars>>

\* str.lower and the substring test of search_results_files
lower(text) == [i \in 1..Len(text) |-> IF text[i] = "B" THEN "b" ELSE text[i]]
contains(text, part) ==
    \E i \in 1..(Len(text) - Len(part) + 1) :
        SubSeq(text, i, i + Len(part) - 1) = part
Queries == {<<>>, <<"B">>, <<"x", "/">>}

search_results_files(query) ==
    /\ last_call.op # "none"
    /\ LET walk == walk_dataset_for_results(results_files, results_cache, FALSE)
           files == walk.memory.files
           matches(i) == contains(lower(files[i]), lower(query))
       IN /\ results_files' = walk.memory
          /\ results_cache' = walk.cache
          /\ last_call' =
                 [op |-> "search", listed |-> walk.listed,
                  returned |-> sorted({files[i] : i \in {k \in 1..Len(files) :
                                                            matches(k)}})]
    /\ UNCHANGED dataset
    /\ UNCHANGED <<coreVars, toolkitVars, graphVars, parseVars, schedulerVars,
                   cacheVars>>

\* api_clear_cache: forget the list, remove the cache file (a failure to
\* remove it is logged and ignored), walk with force_recache=True
api_clear_cache(removed) ==
    /\ last_call.op # "none"
    /\ LET cache == IF removed THEN NoCacheFile ELSE results_cache
           walk == walk_dataset_for_results(NotLoaded, cache, TRUE)
       IN /\ results_files' = walk.memory
          /\ results_cache' = walk.cache
          /\ last_call' = [op |-> "recache", listed |-> walk.listed,
                           returned |-> walk.memory.files]
    /\ UNCHANGED dataset
    /\ UNCHANGED <<coreVars, toolkitVars, graphVars, parseVars, schedulerVars,
                   cacheVars>>

\* a run adds its results file to the remote dataset
upload(path) ==
    /\ last_call.op # "none"
    /\ path \notin dataset
    /\ dataset' = dataset \cup {path}
    /\ UNCHANGED <<results_files, results_cache, last_call>>
    /\ UNCHANGED <<coreVars, toolkitVars, graphVars, parseVars, schedulerVars,
                   cacheVars>>

\* the app has been imported: _results_files is None, the cache file is
\* whatever earlier runs left
InitExplorer ==
    /\ results_files = NotLoaded
    /\ results_cache \in {NoCacheFile, Corrupt}
                         \cup {CacheOf(sorted(S)) : S \in SUBSET ResultPaths}
    /\ dataset \in SUBSET ResultPaths
    /\ last_call = [op |-> "start", listed |-> FALSE, returned |-> <<>>]

InitExploring ==
    IdleBatch("explorer") /\ InitSession /\ InitResume /\ IdleFormat
                          /\ InitToolkit /\ IdleGraph /\ IdleParse
                          /\ IdleScheduler /\ IdleCache /\ InitExplorer

NextExplorer ==
    \/ get_results_files
    \/ \E query \in Queries : search_results_files(query)
    \/ \E removed \in BOOLEAN : api_clear_cache(removed)
    \/ \E path \in ResultPaths : upload(path)

SpecExplorer == InitExploring /\ [][NextExplorer]_vars

\* ====================================================================
\* Properties
\* ====================================================================
Finished(j) == pc[j] \in Terminal

C2_OneRecordPerJob ==
    mode = "evaluation" =>
        \A j \in Jobs : /\ written[j] <= 1
                        /\ Finished(j) => written[j] = 1

\* C3: no job is ever cancelled because a sibling failed, and the scheduler
\* call returns only when every job has reached its own end
C3_SiblingsIsolated ==
    /\ \A j \in Jobs : pc[j] # "cancelled"
    /\ batch = "returned" => \A j \in Jobs : pc[j] \in {"returned", "raised"}

C3_Witness ==
    /\ batch = "returned"
    /\ \E j1, j2 \in Jobs :
         /\ pc[j1] = "raised"
         /\ pc[j2] = "returned"
         /\ written[j2] = 1
         /\ json_result[j2].exit_code = status[j2]

\* C8: a job whose download failed has returned with DOWNLOAD_FAILURE, and
\* neither wrote a build script nor created or started a container
C8_DownloadFailureShortCircuits ==
    \A j \in Jobs :
        downloaded[j] = "no" =>
            /\ pc[j] = "returned"
            /\ json_result[j].exit_code = DOWNLOAD_FAILURE
            /\ ~script[j]
            /\ creates[j] = 0
            /\ container[j] = "None"

C8_Witness ==
    \E j \in Jobs : downloaded[j] = "no" /\ json_result[j].exit_code = DOWNLOAD_FAILURE

\* C9: a TIMEOUT record carries the synthetic logs, nothing of the results
\* file, its container was force-deleted, and the timeout arose while waiting
\* for the container or collecting its logs, never in create or start
C9_TimeoutOnlyBoundsExecution ==
    \A j \in Jobs :
        (mode = "evaluation" /\ Finished(j) /\ exc[j] = "TimeoutError") =>
            /\ json_result[j].exit_code = TIMEOUT
            /\ json_result[j].container_logs = "timeout_message"
            /\ DOMAIN json_result[j] = DOMAIN InitialResult
            /\ deletes[j] = 1
            /\ phase[j] \in {"wait", "log"}

\* C10: an engine error gives DOCKER_FAILURE, any other unexpected exception
\* gives UNKNOWN_FAILURE, and a nonzero status of the user script is recorded
\* as that status
C10_FailureClassification ==
    \A j \in Jobs :
        (mode = "evaluation" /\ Finished(j)) =>
            /\ exc[j] = "DockerError" =>
                   json_result[j].exit_code = DOCKER_FAILURE
            /\ exc[j] \notin {"none", "DockerError", "TimeoutError"} =>
                   json_result[j].exit_code = UNKNOWN_FAILURE
            /\ (exc[j] = "none" /\ status[j] \notin {None, 0}) =>
                   json_result[j].exit_code = status[j]

\* ---------------------------------------------------- the session
ExecInFlight == {c \in Calls : s_pc[c] \in {"exec", "running", "restarting"}}

Racing == "Lock file exists, commands are racing!"

\* C4: at most one exec is in flight in a session, and the lock-file script
\* never finds the lock file of another command
C4_OneExecInFlight ==
    /\ Cardinality(ExecInFlight) <= 1
    /\ \A c \in Calls :
         /\ results[c].output.text # Racing
         /\ (s_pc[c] = "done" /\ s_cmd[c] = "lock" /\ results[c].exit_code # None)
                => (results[c].output.text = "cmd done" /\ results[c].exit_code = 0)

C4_Witness ==
    \E c1, c2, c3 \in Calls :
        /\ s_cmd[c1] = "lock" /\ s_cmd[c2] = "lock" /\ s_cmd[c3] = "lock"
        /\ s_pc[c1] = "done" /\ results[c1].output.text = "cmd done"
        /\ s_pc[c2] = "running" /\ tmp_lock
        /\ s_pc[c3] = "waiting"

\* C5: a timed-out command returns exit_code null and gives the mutex back;
\* no exec runs while the container is down; a command that completes returns
\* its real exit code and sees the mounted files from before the timeout
C5_TimeoutRecovery ==
    /\ \A c \in Calls :
         /\ s_pc[c] \in {"exec", "running"} => container_up
         /\ (s_pc[c] = "done" /\ results[c].output.text = "timeout")
                => results[c].exit_code = None
         /\ (s_pc[c] = "done" /\ results[c].output.text # "timeout")
                => results[c].exit_code = ExitCode(s_cmd[c])
         /\ (s_pc[c] = "done" /\ s_cmd[c] = "show"
               /\ results[c].exit_code # None /\ results[c].epoch = timeouts)
                => survived \subseteq results[c].output.files
    /\ ExecInFlight = {} => (mutex = 0 /\ container_up)

C5_Witness ==
    \E c1, c2 \in Calls :
        /\ s_pc[c1] = "done" /\ s_cmd[c1] = "sleep"
        /\ results[c1].exit_code = None
        /\ s_pc[c2] = "done" /\ s_cmd[c2] = "show"
        /\ results[c2].pos > results[c1].pos
        /\ results[c2].exit_code = 0
        /\ "partial.txt" \in results[c2].output.files

\* variables and cwd after the commands of history h, replayed one by one:
\* a completed command contributes its effect, a timed-out one nothing
RECURSIVE Replay(_)
Replay(h) ==
    IF h = <<>> THEN InitialState
    ELSE LET before == Replay(SubSeq(h, 1, Len(h) - 1))
             last == h[Len(h)]
         IN IF last.exit_code = None THEN before
            ELSE Effect(last.command, before)

\* C6: the variables and cwd a command sees are the cumulative effect of
\* every command completed before it, whatever their exit codes, and
\* SessionState holds that effect after every command
C6_StateContinuity ==
    /\ session_state.X = Replay(commands_history).X
    /\ session_state.cwd = Replay(commands_history).cwd
    /\ \A c \in Calls :
         (s_pc[c] = "done" /\ s_cmd[c] = "show" /\ results[c].exit_code # None)
            => LET seen == Replay(SubSeq(commands_history, 1, results[c].pos - 1))
               IN /\ results[c].output.X = seen.X
                  /\ results[c].output.cwd = seen.cwd

C6_Witness ==
    \E c \in Calls :
        /\ s_pc[c] = "done" /\ s_cmd[c] = "show"
        /\ results[c].pos = 3
        /\ commands_history[1].command = "cd_fail"
        /\ commands_history[2].command = "exit"
        /\ commands_history[2].exit_code = 123
        /\ results[c].output.X = 2
        /\ results[c].output.cwd = "/data/project/src"

\* C7: the step on which a command times out, and the step on which the
\* restart ends, leave SessionState as it was; a command that runs replays
\* exactly the stored variables and cwd
C7_TimeoutKeepsState ==
    /\ [][(\E c \in Calls : s_pc[c] # s_pc'[c] /\
              (s_pc'[c] = "restarting" \/ s_pc[c] = "restarting"))
            => session_state' = session_state]_vars
    /\ [](\A c \in Calls :
            (s_pc[c] = "running" /\ s_cmd[c] \in {"show", "exit", "lock"})
               => (shell[c].X = session_state.X /\ shell[c].cwd = session_state.cwd))

C7_Witness ==
    \E c0, c1, c2 \in Calls :
        /\ s_pc[c0] = "done" /\ s_cmd[c0] = "export" /\ results[c0].pos = 1
        /\ s_pc[c1] = "done" /\ s_cmd[c1] = "sleep" /\ results[c1].pos = 2
        /\ results[c1].exit_code = None
        /\ s_pc[c2] = "running" /\ s_cmd[c2] = "show"
        /\ shell[c2].X = 1
        /\ session_state.X = 1

\* C11: a finished job whose try block was left while the container was being
\* created carries CREATE_CONTAINER_FAILURE, and every finished job has been
\* cleaned (its checkout released)
C11_CreateFailureIsItsOwnOutcome ==
    \A j \in Jobs :
        (mode = "evaluation" /\ Finished(j)) =>
            /\ phase[j] = "create" =>
                   json_result[j].exit_code = CREATE_CONTAINER_FAILURE
            /\ cleared[j]

\* C12: json_result["exit_code"] is never assigned twice, a finished job has
\* assigned it exactly once, and a written record holds an integer
C12_ExitCodeSetOnce ==
    mode = "evaluation" =>
        \A j \in Jobs :
            /\ assigned[j] <= 1
            /\ Finished(j) => assigned[j] = 1
            /\ written[j] = 1 => /\ json_result[j].exit_code \in Int
                                 /\ json_result[j].exit_code # None

\* C13: the step that collects the logs and reads the results file without an
\* engine error raises nothing and leaves the record with the status and the
\* logs obtained from the container, whatever the file holds
C13_ResultFileBestEffort ==
    [][\A j \in Jobs :
          (mode = "evaluation" /\ pc[j] = "log" /\ pc'[j] # "log"
             /\ phase'[j] = "none") =>
              /\ exc'[j] = "none"
              /\ json_result'[j].exit_code = status[j]
              /\ json_result'[j].container_logs = "logs"]_vars

\* C14: a job deletes its container at most once and only after creating it,
\* a finished job has deleted exactly the containers it created (one or
\* none), and the delete step, failed or not, goes on to closing the client
\* without touching the record or the job's exception
C14_ContainerDeletedOnce ==
    /\ [](mode = "evaluation" =>
            \A j \in Jobs :
                /\ creates[j] <= 1
                /\ deletes[j] <= creates[j]
                /\ Finished(j) => deletes[j] = creates[j])
    /\ [][\A j \in Jobs :
            (mode = "evaluation" /\ pc[j] = "delete" /\ pc'[j] # "delete") =>
                /\ pc'[j] = "close"
                /\ json_result'[j] = json_result[j]
                /\ exc'[j] = exc[j]]_vars

C14_Witness ==
    /\ mode = "evaluation"
    /\ \E j1, j2 \in Jobs :
         /\ Finished(j1) /\ exc[j1] = "TimeoutError"
         /\ creates[j1] = 1 /\ deletes[j1] = 1
         /\ Finished(j2) /\ phase[j2] = "create"
         /\ creates[j2] = 0 /\ deletes[j2] = 0

\* C15: every finished job has released its checkout and recorded its
\* execution time
C15_CheckoutReleasedAndTimed ==
    \A j \in Jobs :
        (mode = "evaluation" /\ Finished(j)) =>
            /\ cleared[j]
            /\ json_result[j].execution_time = 1

\* C18: an inference job that has left process_single_datapoint after its
\* session was created has called clean exactly once
C18_SessionCleanedOnce ==
    \A j \in Jobs :
        (mode = "inference" /\ pc[j] = "returned" /\ creates[j] = 1) =>
            deletes[j] = 1

\* C16: no step replaces the record stored in a result file by the record of
\* another (repository, revision) pair
C16_OneFilePerJob ==
    [][\A file \in (DOMAIN results_dir) \cap (DOMAIN results_dir') :
          results_dir'[file] = results_dir[file]]_vars

RecordExists(dir, job) == \E file \in DOMAIN dir : dir[file] = job

\* C17: a run of main() without the rewrite flag passes on exactly the
\* submitted pairs that have no record yet; with the flag it empties the
\* results directory and passes on every submitted pair
C17_ResumeSkipsRecordedJobs ==
    [][(m_pc = "idle" /\ m_pc' = "running") =>
          IF rewrite_results'
          THEN results_dir' = NoFiles /\ repos' = submitted'
          ELSE /\ results_dir' = results_dir
               /\ repos' = {job \in submitted' :
                              ~RecordExists(results_dir, job)}]_vars

\* C19: a command that exited 0 gets its output back unchanged when it is at
\* most L long, and otherwise the first L characters followed by the skip
\* marker and nothing else; the exit code returned is 0
C19_SuccessFraming ==
    (f_pc = "formatted" /\ command_exit = 0) =>
        LET L == max_num_chars_bash_output
            n == LinesSkipped(SubSeq(command_output, L + 1, Len(command_output)))
        IN /\ returned.exit_code = 0
           /\ IF Len(command_output) <= L
              THEN returned.text = command_output
              ELSE /\ returned.text = SubSeq(command_output, 1, L) \o Marker(n)
                   /\ Len(returned.text) = L + Len(Marker(n))

C19_Witness ==
    /\ f_pc = "formatted"
    /\ command_exit = 0
    /\ max_num_chars_bash_output = 2
    /\ command_output = <<"a", "a", "a", "a">>
    /\ Len(returned.text) = 2 + 29

\* C20: a command that exited nonzero with output longer than L gets back a
\* text of length L + len(prefix) + len(marker) + 1 and its own exit code
C20_FailureFraming ==
    (f_pc = "formatted" /\ command_exit \in ExitStatuses \ {0}
       /\ Len(command_output) > max_num_chars_bash_output) =>
        LET L == max_num_chars_bash_output
            n == LinesSkipped(SubSeq(command_output, L + 1, Len(command_output)))
        IN /\ Len(returned.text) = L + Len(ERROR_PREFIX) + Len(Marker(n)) + 1
           /\ returned.exit_code = command_exit

C20_Witness ==
    /\ f_pc = "formatted"
    /\ command_exit = 123
    /\ max_num_chars_bash_output = 2
    /\ command_output = <<"a", "a", "a", "a">>
    /\ Len(returned.text) = 2 + 39 + 29 + 1
    /\ returned.exit_code = 123

StartsWith(text, prefix) ==
    /\ Len(text) >= Len(prefix)
    /\ SubSeq(text, 1, Len(prefix)) = prefix

\* C21 (as stated): for a command that ran and exited nonzero the prefix is
\* put in front of the full output, that text is truncated, and a newline is
\* appended; a timed-out command gets no prefix
C21_PrefixThenTruncate ==
    f_pc = "formatted" =>
        LET L == max_num_chars_bash_output
        IN /\ command_exit \in ExitStatuses \ {0} =>
                 returned.text =
                     Truncate(ERROR_PREFIX \o command_output, L) \o <<"\n">>
           /\ command_exit = None =>
                 ~StartsWith(returned.text, ERROR_PREFIX)

\* C21 (amended): for a command that ran and exited nonzero the output alone
\* is truncated (first L characters and the marker, or unchanged when it is
\* at most L long), then the whole prefix is put in front of it and a newline
\* behind it; a timed-out command gets no prefix
C21_TruncateThenFrame ==
    f_pc = "formatted" =>
        LET L == max_num_chars_bash_output
            n == LinesSkipped(SubSeq(command_output, L + 1, Len(command_output)))
            cut == IF Len(command_output) <= L THEN command_output
                   ELSE SubSeq(command_output, 1, L) \o Marker(n)
        IN /\ command_exit \in ExitStatuses \ {0} =>
                 returned.text = ERROR_PREFIX \o cut \o <<"\n">>
           /\ command_exit = None =>
                 ~StartsWith(returned.text, ERROR_PREFIX)

C21_Witness ==
    /\ f_pc = "formatted"
    /\ command_exit = 1
    /\ max_num_chars_bash_output = 1
    /\ command_output = <<"a", "\n", "a">>
    /\ SubSeq(returned.text, 1, 39) = ERROR_PREFIX
    /\ returned.text[40] = "a"
    /\ Len(returned.text) = 39 + 1 + 29 + 1

IsPrefix(a, b) == Len(a) <= Len(b) /\ SubSeq(b, 1, Len(a)) = a

\* C22 (as stated): the history holds one entry, with command and exit code,
\* for every exec that reached the container, in execution order, and every
\* step leaves the entries it already had in place
C22_HistoryOfEveryCommand ==
    /\ [](tk_history = Entries(execs))
    /\ [][IsPrefix(tk_history, tk_history')]_vars

RecordedExec(e) == e.add_to_history

\* C22 (amended): the history holds one entry, with command and exit code,
\* for every exec made with add_to_history left on, in execution order; an
\* exec made with add_to_history=False (the shellcheck run) leaves none; every
\* step leaves the entries the history already had in place
C22_HistoryOfRecordedCommands ==
    /\ [](tk_history = Entries(SelectSeq(execs, RecordedExec)))
    /\ [][IsPrefix(tk_history, tk_history')]_vars

C22_Witness ==
    /\ tk_class = "shellcheck" /\ tk_pc = "ready"
    /\ Len(execs) = 4
    /\ execs[3].command = "shellcheck" /\ execs[3].exit_code = 1
    /\ execs[4].command = "shellcheck" /\ execs[4].exit_code = None
    /\ tk_history = <<[command |-> "init", exit_code |-> 0],
                      [command |-> "install_shellcheck", exit_code |-> 0]>>

\* C23: the executor behind a configured toolkit is read-only exactly for
\* "readonly"; a read-only toolkit that came out of create() sits on a
\* read-only executor, no write-intent command of it ever reached the
\* container and nothing was written there; a rejected call leaves the
\* container's execs, its contents and the history as they were
C23_ReadOnlyPolicy ==
    /\ []((tk_config # "none" /\ tk_pc # "config") =>
             (read_only <=> tk_config = "readonly"))
    /\ []((tk_class = "readonly" /\ tk_pc = "ready") =>
             /\ read_only
             /\ tk_writes = 0
             /\ \A i \in 1..Len(execs) : ~WriteIntent(execs[i].command))
    /\ [][(tk_class = "readonly" /\ tk_pc = "ready" /\ tk_calls' # tk_calls
             /\ tk_reply' = "rejected") =>
              /\ execs' = execs
              /\ tk_writes' = tk_writes
              /\ tk_history' = tk_history]_vars

C23_Witness ==
    /\ tk_class = "readonly" /\ tk_pc = "ready"
    /\ tk_config = "readonly"
    /\ tk_reply = "rejected"
    /\ tk_calls = 2
    /\ Len(execs) = 2
    /\ execs[2].command = "ls"

\* the attempts of a try-again run: its AI messages, in order
Attempts == SelectSeq(messages, IsAI)
Passed(m) == m.reward_score >= reward_score_for_pass
IsModelCall(x) == x = "model"
Min(a, b) == IF a <= b THEN a ELSE b

\* index of the first attempt whose reward reaches the threshold, and
\* beyond every limit when there is none
FirstPass ==
    IF \E i \in 1..Len(Attempts) : Passed(Attempts[i])
    THEN CHOOSE i \in 1..Len(Attempts) :
             /\ Passed(Attempts[i])
             /\ \A j \in 1..(i - 1) : ~Passed(Attempts[j])
    ELSE MaxIterations + 2

\* C24 (as stated): a finished try-again run has invoked the model at most
\* max_iterations times, its final turn is min(max_iterations, index of
\* the first passing attempt) and its max_turns is max_iterations, for
\* every max_iterations >= 0
C24_StopsAtPassOrLimit ==
    (workflow = "try_again" /\ node = END) =>
        /\ Len(SelectSeq(invocations, IsModelCall)) <= max_iterations
        /\ turn = Min(max_iterations, FirstPass)
        /\ max_turns = max_iterations

\* C25: in the try-again workflow every turn calls the model and then the
\* reward function, once each; after the initial messages come, per turn,
\* the AI message carrying its reward_score and then a feedback
\* HumanMessage exactly when the reward is below the threshold; a
\* finished run of t turns over k initial messages has k + 2t messages
\* when the last attempt failed and k + 2t - 1 when it passed
C25_TurnMessages ==
    (workflow = "try_again" /\ turn # None) =>
        LET k == Len(initial)
            body == SubSeq(messages, k + 1, Len(messages))
        IN /\ SubSeq(messages, 1, k) = initial
           /\ Len(invocations) = 2 * turn
           /\ \A i \in 1..Len(invocations) :
                  invocations[i] = IF i % 2 = 1 THEN "model" ELSE "reward"
           /\ Len(SelectSeq(body, IsAI)) = turn
           /\ \A i \in 1..Len(body) :
                  IF body[i].type = "ai"
                  THEN /\ body[i].reward_score \in Rewards
                       /\ (i < Len(body) /\ body[i + 1].type = "human")
                              <=> ~Passed(body[i])
                  ELSE /\ body[i].type = "human"
                       /\ i > 1
                       /\ body[i - 1].type = "ai"
           /\ node = END =>
                  Len(messages) =
                      IF Passed(Last(Attempts)) THEN k + 2 * turn - 1
                      ELSE k + 2 * turn

\* a run of two turns over two initial messages whose second attempt passed
C25_Witness ==
    /\ workflow = "try_again"
    /\ node = END
    /\ turn = 2
    /\ Len(initial) = 2
    /\ ~Passed(Attempts[1])
    /\ Passed(Attempts[2])
    /\ Len(messages) = 5

CallsTool(m) == m.type = "ai" /\ m.tool_calls # "none"
IsStop(m) == m.type = "ai" /\ m.content = STOP

\* C26 (as stated): whatever the model answers, a rebench-readonly run
\* never holds more than max_turns AI messages with tool calls in its
\* exploration, and its final message list holds the stop message at
\* most once
C26_ExplorationLimited ==
    workflow = "rebench_readonly" =>
        /\ Len(SelectSeq(messages, CallsTool)) <= max_iterations
        /\ node = END => Len(SelectSeq(messages, IsStop)) <= 1

\* the agents' max_iterations property, handed to the graph runner as the
\* limit of node executions: ShellcheckAgent 1 + 3 * N, TryAgainAgent
\* 1 + 2 * N, both EnvSetupReadOnlyAgent classes 2 * N + 3
agent_max_iterations(w, N) ==
    CASE w = "shellcheck" -> 1 + 3 * N
      [] w = "try_again" -> 1 + 2 * N
      [] w = "readonly" -> 2 * N + 3
      [] w = "readonly_v2" -> 2 * N + 3

\* C29 (as stated): no run of the shellcheck, try-again or read-only
\* workflow with iteration limit N executes more graph nodes than the
\* agent's max_iterations property gives for N
C29_NodeRunsWithinProperty ==
    workflow \in {"shellcheck", "try_again", "readonly"} =>
        node_runs <= agent_max_iterations(workflow, max_iterations)

IsShellcheckCall(x) == x = "shellcheck"
InShellcheck == workflow = "shellcheck" /\ turn # None

\* C30: every run of the shellcheck workflow terminates; run_shellcheck_func
\* is invoked at most max_turns times; turn goes up by exactly 1 per
\* shellcheck run, changes at no other step and never exceeds max_turns;
\* and the workflow ends at the first model message without a ```bash
\* block or with turn >= max_turns, and only then
C30_ShellcheckStops ==
    /\ [](InShellcheck =>
              /\ Len(SelectSeq(invocations, IsShellcheckCall)) = turn
              /\ turn <= max_turns
              /\ max_turns = max_iterations)
    /\ [][InShellcheck =>
              /\ node = "run_shellcheck" =>
                     /\ turn' = turn + 1
                     /\ invocations' = invocations \o <<"shellcheck">>
              /\ node # "run_shellcheck" =>
                     /\ turn' = turn
                     /\ Len(SelectSeq(invocations', IsShellcheckCall)) = turn
              /\ node = "process_output" =>
                     (node' = END <=>
                          \/ Last(messages).content = "text"
                          \/ turn >= max_turns)
              /\ node # "process_output" => node' # END]_vars
    /\ (workflow = "shellcheck" => <>(node = END))

\* a run ended by the turn limit after two shellcheck runs
C30_Witness ==
    /\ workflow = "shellcheck"
    /\ node = END
    /\ max_iterations = 2
    /\ turn = 2
    /\ Len(SelectSeq(invocations, IsShellcheckCall)) = 2
    /\ Last(messages).content = "bash"

\* the prefixes of the commands a script leaves out
ExcludedPrefixes ==
    {<<".", "/", "g", "r", "a", "d", "l", "e", "w">>,
     <<"g", "r", "a", "d", "l", "e", "w">>,
     <<"m", "v", "n">>,
     <<"g", "r", "a", "d", "l", "e">>}
Excluded(entry) ==
    \E prefix \in ExcludedPrefixes : startswith(entry.command, prefix)
Kept(entry) == entry # Null /\ ~Excluded(entry)
ExpectedLine(entry) ==
    IF entry.exit_code = 0 THEN entry.command
    ELSE <<"#", " ">> \o entry.command
HistoryOf(t) ==
    IF t # <<>> /\ Last(t).node = "commands_history"
                /\ "commands" \in DOMAIN Last(t)
    THEN Last(t).commands ELSE <<>>
ExpectedScript(t) ==
    LET kept == SelectSeq(HistoryOf(t), Kept)
    IN join(<<"\n">>, [i \in 1..Len(kept) |-> ExpectedLine(kept[i])])

\* C27 (as stated): the script of a trajectory ending with a
\* commands_history node holds its commands in history order, those with
\* exit_code 0 verbatim and the failed ones commented out, without the
\* commands starting with ./gradlew, gradlew, mvn or gradle; every other
\* trajectory gives the empty script
C27_ScriptOfHistory ==
    pt_pc = "done" => parsed = ExpectedScript(trajectory)

Holding == {j \in Jobs : task[j] = "running"}

\* C28: with a worker limit of at least 1 and fair scheduling, every job
\* whose own run ends gets a permit and runs; the permit goes back on
\* every exit path (return, exception, timeout), so permits left plus
\* permits held always make the limit; and the scheduler call returns
\* with every job done and every permit back
C28_SchedulerLiveness ==
    /\ [](scheduler \in Schedulers =>
              permits + Cardinality(Holding) = batch_size)
    /\ (scheduler \in Schedulers /\ batch_size >= 1) =>
           /\ \A j \in Jobs : <>(task[j] = "running")
           /\ \A j \in Jobs : <>(task[j] \in Done)
           /\ <>[](/\ call = "returned"
                   /\ permits = batch_size
                   /\ \A j \in Jobs : task[j] \in Done)

\* two jobs queued on one permit, one left by an exception it let out and
\* one by a timeout, and the call has returned with the permit back
C28_Witness ==
    /\ scheduler = "run_batch_async"
    /\ batch_size = 1
    /\ call = "returned"
    /\ permits = 1
    /\ \E j \in Jobs : task[j] = "raised" /\ exit_path[j] = "exception"
    /\ \E j \in Jobs : task[j] = "returned" /\ exit_path[j] = "timeout"

\* ------------------------------------------- the scripts of the workflows
\* C31 (as stated): when the shellcheck workflow has ended and its last
\* model message holds a ```bash block, state["script"] and the last entry
\* of the agent's commands history are that block
C31_LastScriptRecorded ==
    (/\ workflow = "shellcheck" /\ node = END
     /\ Last(messages).type = "ai" /\ Last(messages).content = "bash") =>
        /\ shell_script = BlockOf(messages)
        /\ resulting_commands # <<>>
        /\ Last(resulting_commands) = BlockOf(messages)

IsToolsCall(x) == x = "tools"
ReadOnlyRun == workflow = "readonly" /\ max_iterations >= 1
Ended == node \in {END, RAISED}
CallsSubmit(m) == m.type = "ai" /\ m.tool_calls = "submit_shell_script"

\* C32 (as stated): with max_iterations = N >= 1 every run of the read-only
\* workflow ends; the tools node runs at most N - 1 times and turn goes up
\* by 1 with each of its runs; the run ends out of submit_shell_script,
\* reached directly when the model's answer calls submit_shell_script and
\* through force_submit_shell_script_tool_call when the answer calls no
\* tool or the turn limit is reached; submit_shell_script sets shell_script
\* from the last message's call or raises, so no run ends without error and
\* without shell_script
C32_ReadOnlyEndsBySubmit ==
    /\ (ReadOnlyRun => <>Ended)
    /\ [](ReadOnlyRun =>
             Len(SelectSeq(invocations, IsToolsCall)) <= max_iterations - 1)
    /\ [][(ReadOnlyRun /\ node = "tools") => turn' = turn + 1]_vars
    /\ [][(ReadOnlyRun /\ node # "tools") => turn' = turn \/ turn = None]_vars
    /\ [][(ReadOnlyRun /\ ~Ended /\ Ended') => node = "submit_shell_script"]_vars
    /\ [][(ReadOnlyRun /\ node = "model" /\ CallsSubmit(Last(messages')))
             => node' = "submit_shell_script"]_vars
    /\ [][(ReadOnlyRun /\ node = "model" /\ ~CallsSubmit(Last(messages'))
             /\ (turn >= max_iterations \/ Last(messages').tool_calls = "none"))
             => node' = "force_submit_shell_script_tool_call"]_vars
    /\ [][(ReadOnlyRun /\ node = "submit_shell_script") =>
             IF CallsSubmit(Last(messages))
             THEN node' = END /\ shell_script' = BlockOf(messages)
             ELSE node' = RAISED]_vars
    /\ []((ReadOnlyRun /\ node = END) => shell_script # None)

\* every tool call of an AI message of msgs is answered by exactly one
\* ToolMessage of msgs
Paired(msgs) ==
    \A i \in 1..Len(msgs) :
        (msgs[i].type = "ai" /\ msgs[i].tool_calls # "none") =>
            Cardinality({j \in 1..Len(msgs) :
                            /\ msgs[j].type = "tool"
                            /\ msgs[j].tool_call_id = msgs[i].tool_call_id}) = 1

ForcingNodes == {"force_submit_shell_script_tool_call",
                 "force_script_generation"}

\* the forcing node pairs without KeyError, and each list it hands to the
\* model (the one before each answer it appends) is paired
PairedAtEachCall ==
    /\ ~unanswered_tool_calls(messages).KeyError
    /\ \A i \in (Len(messages) + 1)..Len(messages') :
           messages'[i].type = "ai" => Paired(SubSeq(messages', 1, i - 1))

\* C33 (as stated): each time one of the two forcing nodes calls the model,
\* every tool call of the message list it hands over has exactly one
\* ToolMessage, and the node does not raise while it pairs them
C33_PairedBeforeForcedCall ==
    [][(node \in ForcingNodes) => PairedAtEachCall]_vars

\* the answers force_script_generation got from the model
ForcedAnswers(before, after) ==
    {i \in (Len(before) + 1)..Len(after) : after[i].type = "ai"}

\* what C34 says of one run of force_script_generation
RetriedWithinBound ==
    LET answers == ForcedAnswers(messages, messages')
    IN /\ node' = END
       /\ Cardinality(answers) <= max_script_generation_attempts
       /\ Len(invocations') - Len(invocations) = Cardinality(answers)
       /\ Last(messages').type = "ai"
       /\ \A i \in answers :
              i # Len(messages') => messages'[i].content # "bash"
       /\ shell_script' = IF Last(messages').content = "bash"
                          THEN Len(messages') ELSE None

\* C34 (as stated): for every max_script_generation_attempts >= 0,
\* force_script_generation returns; it calls the model at most that many
\* times; no answer before the last one holds a ```bash block; and
\* shell_script is the block of the last answer, None when it holds none
C34_BoundedRetries ==
    [][node = "force_script_generation" => RetriedWithinBound]_vars

\* the trajectory ends with a commands history of exactly one command, the
\* submitted script, with the exit code an agent attaches to it: 0
\* (TryAgainAgent) or None (the read-only agents, MultiAttemptAgent)
FinalScriptOnly(t) ==
    /\ Len(HistoryOf(t)) = 1
    /\ HistoryOf(t)[1] # Null
    /\ HistoryOf(t)[1].exit_code \in {0, None}

\* C35 (as stated): parse_script_from_trajectory gives back the text of the
\* submitted script unchanged when the commands history holds that script
\* alone, with exit code 0 or None, with or without the "#!/bin/bash\n\n"
\* start
C35_FinalScriptRoundTrip ==
    (pt_pc = "done" /\ FinalScriptOnly(trajectory)) =>
        parsed = HistoryOf(trajectory)[1].command

\* a trajectory file of exactly this datapoint exists and its last entry is
\* the commands_history node
TrajectoryComplete(dir, example) ==
    /\ trajectory_file(example) \in DOMAIN dir
    /\ dir[trajectory_file(example)] = "complete"

\* C36 (as stated): a run of the inference main() without
\* rewrite_trajectories leaves the logging directory as it is and processes
\* exactly the datapoints that have no complete trajectory file (missing,
\* empty and incomplete ones are processed again); with rewrite_trajectories
\* it empties the logging directory and processes every datapoint
C36_ResumeSkipsCompleteTrajectories ==
    [][(mode = "inference_main" /\ m_pc = "idle" /\ m_pc' = "running") =>
          IF rewrite_results'
          THEN results_dir' = NoFiles /\ repos' = submitted'
          ELSE /\ results_dir' = results_dir
               /\ repos' = {example \in submitted' :
                              ~TrajectoryComplete(results_dir, example)}]_vars

\* manager m is constructed on this step
Constructed(m) == ~managers[m].built /\ managers'[m].built

\* C37 (as stated): whatever the interleaving of the update_cache calls of
\* the managers sharing the directory, a manager constructed after them
\* returns, for every key written since the last clear_cache, the path
\* written last
C37_CachePersistsAcrossManagers ==
    [][\A m \in Managers : Constructed(m) =>
          \A repo_id \in RepoIds, file_path \in FilePaths :
              cache_key(repo_id, file_path) \in DOMAIN latest =>
                  get_cached_path(managers'[m].cache_map, repo_id, file_path,
                                  FALSE)
                      = latest[cache_key(repo_id, file_path)]]_vars

\* C38 (as stated): whatever the list in memory and the cache file are,
\* get_results_files and search_results_files return without listing the
\* remote dataset
C38_NoWalkOnGetOrSearch ==
    last_call.op \in {"get", "search"} => ~last_call.listed

\* the container_logs the runner itself puts into a record
RunnerLogs ==
    {"None", "logs", "timeout_message", "docker_error", "unknown_exception"}

\* C39 (as stated): whatever the result file of the container holds, a
\* written record carries the job's own repository and revision, and its
\* container_logs are the runner's
C39_RecordIdentity ==
    mode = "evaluation" =>
        \A j \in Jobs :
            written[j] >= 1 =>
                /\ json_result[j].repo_name = InitialResult.repo_name
                /\ json_result[j].commit_sha = InitialResult.commit_sha
                /\ json_result[j].container_logs \in RunnerLogs

====
